---- MODULE Spec2Model ----
(***************************************************************************)
(* cube-parse: extraction of alternate-function pin mappings from the      *)
(* STM32CubeMX database.  Strings are sequences of one-character strings,  *)
(* so that the regular expressions, the splitting, the case conversions    *)
(* and the orderings of the program are computed character by character.   *)
(***************************************************************************)
EXTENDS Integers, Sequences, FiniteSets, TLC

\* ------------------------------------------------------------------------
\* Characters
\* ------------------------------------------------------------------------

\* The printable ASCII characters in code order: Ascii32[i] has code 31+i
\* (codes 32..95) and Ascii97[i] has code 96+i (codes 97..126).
Ascii32 ==
  << " ", "!", "\"", "#", "$", "%", "&", "'", "(", ")", "*", "+", ",", "-", ".", "/",
     "0", "1", "2", "3", "4", "5", "6", "7", "8", "9", ":", ";", "<", "=", ">", "?",
     "@", "A", "B", "C", "D", "E", "F", "G", "H", "I", "J", "K", "L", "M", "N", "O",
     "P", "Q", "R", "S", "T", "U", "V", "W", "X", "Y", "Z", "[", "\\", "]", "^", "_" >>
Ascii97 ==
  << "a", "b", "c", "d", "e", "f", "g", "h", "i", "j", "k", "l", "m", "n", "o",
     "p", "q", "r", "s", "t", "u", "v", "w", "x", "y", "z", "{", "|", "}", "~" >>

Chr(n) == IF n <= 95 THEN Ascii32[n - 31] ELSE Ascii97[n - 96]
CodeTable ==
  [c \in { Chr(n) : n \in (32..95) \cup (97..126) } |->
     CHOOSE n \in (32..95) \cup (97..126) : Chr(n) = c]
Code(c) == CodeTable[c]

AnyChar == { Chr(n) : n \in (32..95) \cup (97..126) }
Upper == { Chr(n) : n \in 65..90 }
Lower == { Chr(n) : n \in 97..122 }
Digit == { Chr(n) : n \in 48..57 }
Alnum == Upper \cup Lower \cup Digit
Word == Alnum \cup {"_"}

to_uppercase(s) == [i \in 1..Len(s) |-> IF s[i] \in Lower THEN Chr(Code(s[i]) - 32) ELSE s[i]]
to_lowercase(s) == [i \in 1..Len(s) |-> IF s[i] \in Upper THEN Chr(Code(s[i]) + 32) ELSE s[i]]


\* ------------------------------------------------------------------------
\* Regular expressions (regex crate: leftmost-first matching with captures)
\* ------------------------------------------------------------------------
\* A pattern is a tuple: <<"set", S>> one character of S; <<"lit", w>> the
\* characters of w; <<"run", S, n>> n or more characters of S, as many as
\* possible first (S* for n = 0, S+ for n = 1); <<"cat", a, b>>; <<"alt", a, b>>
\* (a preferred); <<"opt", a>> (a preferred); <<"grp", name, a>> a capture
\* group; <<"bos">> and <<"eos">> the anchors.

One(S) == <<"set", S>>
Lit(w) == <<"lit", w>>
Star(S) == <<"run", S, 0>>
Plus(S) == <<"run", S, 1>>
Cat(a, b) == <<"cat", a, b>>
Alt(a, b) == <<"alt", a, b>>
Opt(a) == <<"opt", a>>
Grp(n, a) == <<"grp", n, a>>
Bos == <<"bos">>
Eos == <<"eos">>

RECURSIVE CatAll(_)
CatAll(ps) == IF Len(ps) = 1 THEN ps[1] ELSE Cat(ps[1], CatAll(Tail(ps)))

RECURSIVE Flatten(_)
Flatten(ss) == IF Len(ss) = 0 THEN <<>> ELSE ss[1] \o Flatten(Tail(ss))

NoCaps == [n \in {} |-> <<0, 0>>]
SetCap(caps, n, v) == [x \in DOMAIN caps \cup {n} |-> IF x = n THEN v ELSE caps[x]]

\* The number of characters of S that s has from position i on.
RunLen(s, i, S) ==
  CHOOSE n \in 0..(Len(s) + 1 - i) :
    /\ \A k \in 0..(n - 1) : s[i + k] \in S
    /\ (i + n > Len(s) \/ s[i + n] \notin S)

\* Every way pattern p matches s from position i, in the engine's order of
\* preference: a sequence of [e |-> the position after the match, c |-> the
\* captures as name -> <<first, after-last>>].
RECURSIVE Matches(_, _, _, _)
Matches(p, s, i, caps) ==
  CASE p[1] = "set" ->
         IF i <= Len(s) /\ s[i] \in p[2] THEN << [e |-> i + 1, c |-> caps] >> ELSE << >>
    [] p[1] = "lit" ->
         IF i + Len(p[2]) - 1 <= Len(s) /\ SubSeq(s, i, i + Len(p[2]) - 1) = p[2]
         THEN << [e |-> i + Len(p[2]), c |-> caps] >> ELSE << >>
    [] p[1] = "run" ->
         LET n == RunLen(s, i, p[2])
         IN  IF n < p[3] THEN << >>
             ELSE [k \in 1..(n - p[3] + 1) |-> [e |-> i + n + 1 - k, c |-> caps]]
    [] p[1] = "bos" -> IF i = 1 THEN << [e |-> i, c |-> caps] >> ELSE << >>
    [] p[1] = "eos" -> IF i = Len(s) + 1 THEN << [e |-> i, c |-> caps] >> ELSE << >>
    [] p[1] = "cat" ->
         LET ms == Matches(p[2], s, i, caps)
         IN  Flatten([k \in 1..Len(ms) |-> Matches(p[3], s, ms[k].e, ms[k].c)])
    [] p[1] = "alt" -> Matches(p[2], s, i, caps) \o Matches(p[3], s, i, caps)
    [] p[1] = "opt" -> Matches(p[2], s, i, caps) \o << [e |-> i, c |-> caps] >>
    [] p[1] = "grp" ->
         LET ms == Matches(p[3], s, i, caps)
         IN  [k \in 1..Len(ms) |-> [e |-> ms[k].e, c |-> SetCap(ms[k].c, p[2], <<i, ms[k].e>>)]]

None == [some |-> FALSE]
Some(v) == [some |-> TRUE, v |-> v]

\* Regex::captures on a pattern that starts with ^: the preferred match at
\* position 1, or None.
captures(p, s) ==
  LET ms == Matches(p, s, 1, NoCaps)
  IN  IF Len(ms) = 0 THEN None ELSE Some(ms[1].c)

\* Match::as_str of a capture
CapStr(s, caps, n) == SubSeq(s, caps[n][1], caps[n][2] - 1)

\* ------------------------------------------------------------------------
\* The program's patterns
\* ------------------------------------------------------------------------

\* GPIO_VERSION with any text before the suffix: "^(.*)_gpio_v1_0$"
GPIO_VERSION_any_prefix ==
  CatAll(<< Bos, Grp("1", Star(AnyChar)), Lit(<<"_", "g", "p", "i", "o", "_", "v", "1", "_", "0">>), Eos >>)

\* main.rs: "^([^_]*)_gpio_v1_0$"
GPIO_VERSION ==
  CatAll(<< Bos, Grp("1", Star(AnyChar \ {"_"})), Lit(<<"_", "g", "p", "i", "o", "_", "v", "1", "_", "0">>), Eos >>)

\* GPIO_REGEX with the version cut after gpio:
\* ^(?P<gpio>[a-zA-Z0-9]+)_(?P<version>gpio)_\w+$
GPIO_REGEX_short_version ==
  CatAll(<< Bos, Grp("gpio", Plus(Alnum)), Lit(<<"_">>),
            Grp("version", Lit(<<"g", "p", "i", "o">>)), Lit(<<"_">>), Plus(Word), Eos >>)

\* internal_peripheral.rs: ^(?P<gpio>[a-zA-Z0-9]+)_(?P<version>gpio_\w+)$
GPIO_REGEX ==
  CatAll(<< Bos, Grp("gpio", Plus(Alnum)), Lit(<<"_">>),
            Grp("version", Cat(Lit(<<"g", "p", "i", "o", "_">>), Plus(Word))), Eos >>)

\* internal_peripheral.rs: ^(?P<mcu>STM32[A-Z]+[0-9]+)[A-Za-z][A-Za-z0-9]+$
MCUS_REGEX ==
  CatAll(<< Bos, Grp("mcu", CatAll(<< Lit(<<"S", "T", "M", "3", "2">>), Plus(Upper), Plus(Digit) >>)),
            One(Upper \cup Lower), Plus(Alnum), Eos >>)

\* STEM_REGEX without the two irregular families.
STEM_REGEX_no_prefix ==
  CatAll(<< Bos,
            Grp("dev", CatAll(<<
              Grp("stem", Plus(Upper \cup {"-"})),
              Star(Digit),
              Opt(Lit(<<"e", "x", "t">>)) >>)),
            Opt(Cat(Lit(<<"_">>), Grp("io", Plus(Word \cup {"-"})))),
            Eos >>)

\* internal_peripheral.rs:
\* ^(?P<dev>(?P<stem>((FMP)?I2|USB_OTG_)?[A-Z-]+)\d*(ext)?)(_(?P<io>[\w-]+))?$
STEM_REGEX ==
  CatAll(<< Bos,
            Grp("dev", CatAll(<<
              Grp("stem", Cat(Opt(Alt(Cat(Opt(Lit(<<"F", "M", "P">>)), Lit(<<"I", "2">>)), Lit(<<"U", "S", "B", "_", "O", "T", "G", "_">>))),
                              Plus(Upper \cup {"-"}))),
              Star(Digit),
              Opt(Lit(<<"e", "x", "t">>)) >>)),
            Opt(Cat(Lit(<<"_">>), Grp("io", Plus(Word \cup {"-"})))),
            Eos >>)

\* AF_REGEX with the remainder optional: ^GPIO_(?P<af>[a-zA-Z\d]+)(_\w+)?$
AF_REGEX_optional_remainder ==
  CatAll(<< Bos, Lit(<<"G", "P", "I", "O", "_">>), Grp("af", Plus(Alnum)), Opt(Cat(Lit(<<"_">>), Plus(Word))), Eos >>)

\* internal_peripheral.rs: ^GPIO_(?P<af>[a-zA-Z\d]+)_\w+$
AF_REGEX ==
  CatAll(<< Bos, Lit(<<"G", "P", "I", "O", "_">>), Grp("af", Plus(Alnum)), Lit(<<"_">>), Plus(Word), Eos >>)

\* utils.rs: (\d+)|([A-Z])([A-Z]+|[a-z]+)?|([a-z])([a-z]+)?
SEGMENT_RE ==
  Alt(Grp("1", Plus(Digit)),
      Alt(Cat(Grp("2", One(Upper)), Opt(Grp("3", Alt(Plus(Upper), Plus(Lower))))),
          Cat(Grp("4", One(Lower)), Opt(Grp("5", Plus(Lower))))))

\* ------------------------------------------------------------------------
\* utils.rs
\* ------------------------------------------------------------------------

\* The text one match of SEGMENT_RE contributes.
Segment(s, caps) ==
  IF "1" \in DOMAIN caps THEN to_uppercase(CapStr(s, caps, "1"))
  ELSE IF "2" \in DOMAIN caps
       THEN to_uppercase(CapStr(s, caps, "2"))
            \o (IF "3" \in DOMAIN caps THEN to_lowercase(CapStr(s, caps, "3")) ELSE << >>)
  ELSE IF "4" \in DOMAIN caps
       THEN to_uppercase(CapStr(s, caps, "4"))
            \o (IF "5" \in DOMAIN caps THEN to_lowercase(CapStr(s, caps, "5")) ELSE << >>)
  ELSE << >>

\* captures_iter from position i: the next match is the preferred match at the
\* first position that has one; the search goes on after it.
RECURSIVE PascalFrom(_, _)
PascalFrom(s, i) ==
  IF i > Len(s) THEN << >>
  ELSE LET ms == Matches(SEGMENT_RE, s, i, NoCaps)
       IN  IF Len(ms) = 0 THEN PascalFrom(s, i + 1)
           ELSE Segment(s, ms[1].c) \o PascalFrom(s, ms[1].e)

to_pascalcase(s) == PascalFrom(s, 1)

\* alphanumeric_sort::compare_str, the order of SortedString: -1 Less,
\* 0 Equal, 1 Greater.  Runs of digits compare by value, then by length.
RECURSIVE DigitRun(_, _)
DigitRun(s, i) == IF i <= Len(s) /\ s[i] \in Digit THEN 1 + DigitRun(s, i + 1) ELSE 0

RECURSIVE NumVal(_, _, _)
NumVal(s, i, n) == IF n = 0 THEN 0 ELSE NumVal(s, i, n - 1) * 10 + (Code(s[i + n - 1]) - 48)

\* Two runs of digits, of lengths na and nb and values da and db: the order
\* they decide, or 0 when they are the same run.
CompareNumbers(na, nb, da, db) ==
  IF da < db THEN -1
  ELSE IF da > db THEN 1
  ELSE IF na > nb THEN 1
  ELSE IF na < nb THEN -1
  ELSE 0

RECURSIVE CompareFrom(_, _, _, _, _)
CompareAfter(a, b, i, j, na, decided) ==
  IF decided # 0 THEN decided ELSE CompareFrom(a, b, i + na, j + na, TRUE)
CompareFrom(a, b, i, j, last_is_number) ==
  IF i > Len(a) THEN (IF j > Len(b) THEN 0 ELSE -1)
  ELSE IF j > Len(b) THEN 1
  ELSE IF a[i] \in Digit /\ b[j] \in Digit
       THEN CompareAfter(a, b, i, j, DigitRun(a, i),
                         CompareNumbers(DigitRun(a, i), DigitRun(b, j),
                                        NumVal(a, i, DigitRun(a, i)),
                                        NumVal(b, j, DigitRun(b, j))))
       ELSE IF a[i] = b[j] THEN CompareFrom(a, b, i + 1, j + 1, FALSE)
       ELSE LET flip == last_is_number /\ ((Code(a[i]) > 255) # (Code(b[j]) > 255))
                gt == Code(a[i]) > Code(b[j])
            IN  IF gt # flip THEN 1 ELSE -1

compare_str(a, b) == CompareFrom(a, b, 1, 1, FALSE)

\* Ord for SortedString
SortedLess(a, b) == compare_str(a, b) < 0

\* Ord for String (str): by bytes, a proper prefix first.
RECURSIVE StrCmpFrom(_, _, _)
StrCmpFrom(a, b, i) ==
  IF i > Len(a) THEN (IF i > Len(b) THEN 0 ELSE -1)
  ELSE IF i > Len(b) THEN 1
  ELSE IF a[i] = b[i] THEN StrCmpFrom(a, b, i + 1)
  ELSE IF Code(a[i]) < Code(b[i]) THEN -1
  ELSE 1

StringLess(a, b) == StrCmpFrom(a, b, 1) < 0

\* The elements of a finite set S in the order lt, a set of pairs <<less,
\* greater>>: the iteration order of a BTreeSet, or of the keys of a BTreeMap.
Ranked(S, lt) ==
  [i \in 1..Cardinality(S) |->
     CHOOSE x \in S : Cardinality({y \in S : << y, x >> \in lt}) = i - 1]

\* ... of SortedString
InSortedOrder(S) == Ranked(S, { p \in S \X S : SortedLess(p[1], p[2]) })

\* ... of numbers
InNumberOrder(S) == Ranked(S, { p \in S \X S : p[1] < p[2] })

\* Vec<String>::sort: the elements of a sequence in the order of String, equal
\* elements in their original order.
sort(v) ==
  [i \in 1..Len(v) |->
     v[CHOOSE k \in 1..Len(v) :
         Cardinality({m \in 1..Len(v) :
                        StringLess(v[m], v[k]) \/ (~StringLess(v[k], v[m]) /\ m < k)}) = i - 1]]

\* ------------------------------------------------------------------------
\* internal_peripheral.rs: the records of the database and the tree
\* ------------------------------------------------------------------------

\* BTreeMap: a function; its keys are iterated in the order of their type.
EmptyMap == << >>
Put(f, k, v) == [x \in DOMAIN f \cup {k} |-> IF x = k THEN v ELSE f[x]]
GetOr(f, k, d) == IF k \in DOMAIN f THEN f[k] ELSE d

\* u32::MAX, in decimal
U32MaxDigits == <<"4", "2", "9", "4", "9", "6", "7", "2", "9", "5">>

\* str::split on one character
RECURSIVE SplitFrom(_, _, _, _)
SplitFrom(s, c, i, acc) ==
  IF i > Len(s) THEN << acc >>
  ELSE IF s[i] = c THEN << acc >> \o SplitFrom(s, c, i + 1, << >>)
  ELSE SplitFrom(s, c, i + 1, Append(acc, s[i]))

split(s, c) == SplitFrom(s, c, 1, << >>)

RECURSIVE StripZeros(_)
StripZeros(d) == IF Len(d) > 1 /\ d[1] = "0" THEN StripZeros(Tail(d)) ELSE d

\* str::parse::<u32>: an optional +, then one or more digits, no overflow.
parse_u32(s) ==
  LET d == IF Len(s) > 0 /\ s[1] = "+" THEN Tail(s) ELSE s
      z == StripZeros(d)
  IN  IF Len(d) = 0 \/ \E i \in 1..Len(d) : d[i] \notin Digit THEN None
      ELSE IF Len(z) > Len(U32MaxDigits)
              \/ (Len(z) = Len(U32MaxDigits) /\ StringLess(U32MaxDigits, z)) THEN None
      ELSE Some(NumVal(z, 1, Len(z)))

\* GPIOPin::get_pin_nr: [panic |-> the index [2] is out of bounds, nr |-> the Option]
get_pin_nr(p) ==
  LET sp == p.specific_parameter
      found == { i \in 1..Len(sp) : sp[i].name = "GPIO_Pin" }
  IN  IF found = {} THEN [panic |-> FALSE, nr |-> None]
      ELSE LET v == sp[CHOOSE i \in found : \A k \in found : i <= k].val
               parts == split(v, "_")
           IN  IF Len(parts) < 3 THEN [panic |-> TRUE, nr |-> None]
               ELSE [panic |-> FALSE, nr |-> parse_u32(parts[3])]

\* The stems that may have no io part.
NoIoStems == { <<"E", "V", "E", "N", "T", "O", "U", "T">>, <<"C", "E", "C">> }

\* update_af_tree, lines 285-296: the fields of a signal whose name matched
\* with the captures m and whose literal matched with the captures a.  The
\* stems in quiet may have no io part.
signal_fields(sig, m, a, stem, io, warn_no_io) ==
  [ok |-> TRUE,
   stem |-> stem,
   dev |-> CapStr(sig.name, m, "dev"),
   af |-> CapStr(sig.val, a, "af"),
   io |-> io,
   warn_no_io |-> warn_no_io,
   io_name |-> <<"P", "i", "n">> \o to_pascalcase(io)]

signal_matched(sig, m, a, stem, has_io, quiet) ==
  signal_fields(sig, m, a, stem,
                IF has_io THEN CapStr(sig.name, m, "io") ELSE stem,
                ~has_io /\ stem \notin quiet)

\* lines 263-282: the two matches, the name first.
signal_captured(sig, m, a, quiet) ==
  IF ~m.some THEN [ok |-> FALSE, why |-> "name"]
  ELSE IF ~a.some THEN [ok |-> FALSE, why |-> "af"]
  ELSE signal_matched(sig, m.v, a.v, CapStr(sig.name, m.v, "stem"), "io" \in DOMAIN m.v, quiet)

\* parse_signal with the warning for every stem that has no io part.
parse_signal_warn_all(sig) ==
  signal_captured(sig, captures(STEM_REGEX, sig.name), captures(AF_REGEX, sig.val), {})

\* update_af_tree, lines 263-296: the fields of one signal, or what failed.
parse_signal(sig) ==
  signal_captured(sig, captures(STEM_REGEX, sig.name), captures(AF_REGEX, sig.val), NoIoStems)

\* insert_leaf that keeps only the version it inserts.
insert_leaf_alone(versions, gpio_version, mcus) == [v \in {gpio_version} |-> mcus]

\* update_af_tree, lines 298-307: the four get-or-create steps, the pin name,
\* and BTreeMap::insert at the leaf, which returns the value it replaces.
insert_leaf(versions, gpio_version, mcus) == Put(versions, gpio_version, mcus)

insert_pin(pin, pin_name, gpio_mcu, gpio_version, mcus) ==
  [names |-> pin.names \cup {pin_name},
   gpios |-> Put(pin.gpios, gpio_mcu,
                 insert_leaf(GetOr(pin.gpios, gpio_mcu, EmptyMap), gpio_version, mcus))]

insert_node(node, loc, pin_name, gpio_mcu, gpio_version, mcus) ==
  [io_name |-> node.io_name,
   pins |-> Put(node.pins, loc,
                insert_pin(GetOr(node.pins, loc, [names |-> {}, gpios |-> EmptyMap]),
                           pin_name, gpio_mcu, gpio_version, mcus))]

insert_io(ios, f, loc, pin_name, gpio_mcu, gpio_version, mcus) ==
  Put(ios, <<f.af, f.io>>,
      insert_node(GetOr(ios, <<f.af, f.io>>, [io_name |-> f.io_name, pins |-> EmptyMap]),
                  loc, pin_name, gpio_mcu, gpio_version, mcus))

insert_dev(devs, f, loc, pin_name, gpio_mcu, gpio_version, mcus) ==
  Put(devs, f.dev,
      insert_io(GetOr(devs, f.dev, EmptyMap), f, loc, pin_name, gpio_mcu, gpio_version, mcus))

insert_stem(t, f, loc, pin_name, gpio_mcu, gpio_version, mcus) ==
  Put(t, f.stem,
      insert_dev(GetOr(t, f.stem, EmptyMap), f, loc, pin_name, gpio_mcu, gpio_version, mcus))

\* The leaf at a key path, when there is one.
HasLeaf(t, stem, dev, afio, loc, gpio_mcu, gpio_version) ==
  /\ stem \in DOMAIN t
  /\ dev \in DOMAIN t[stem]
  /\ afio \in DOMAIN t[stem][dev]
  /\ loc \in DOMAIN t[stem][dev][afio].pins
  /\ gpio_mcu \in DOMAIN t[stem][dev][afio].pins[loc].gpios
  /\ gpio_version \in DOMAIN t[stem][dev][afio].pins[loc].gpios[gpio_mcu]

Leaf(t, stem, dev, afio, loc, gpio_mcu, gpio_version) ==
  t[stem][dev][afio].pins[loc].gpios[gpio_mcu][gpio_version]

\* The tree after the insert, whether insert returned an old value, and the
\* names of the pin (pin.0).
inserted(t, t2, f, loc, gpio_mcu, gpio_version) ==
  [tree |-> t2,
   duplicated |-> HasLeaf(t, f.stem, f.dev, <<f.af, f.io>>, loc, gpio_mcu, gpio_version),
   names |-> t2[f.stem][f.dev][<<f.af, f.io>>].pins[loc].names]

insert_signal(t, f, port_name, pin_nr, pin_name, gpio_mcu, gpio_version, mcus) ==
  inserted(t,
           insert_stem(t, f, <<port_name, pin_nr>>, pin_name, gpio_mcu, gpio_version, mcus),
           f, <<port_name, pin_nr>>, gpio_mcu, gpio_version)

\* lines 285-315: what a parsed signal f writes, r being what its insert gave.
signal_inserted(f, ctx, r) ==
  [tree |-> r.tree,
   msgs |-> (IF f.warn_no_io
             THEN << [t |-> "no_io", stem |-> f.stem, dev |-> f.dev] >>
             ELSE << >>)
            \o (IF r.duplicated
                THEN << [t |-> "duplicated", stem |-> f.stem, dev |-> f.dev,
                         af |-> f.af, io |-> f.io, gpio_mcu |-> ctx.gpio_mcu,
                         gpio_version |-> ctx.gpio_version, names |-> r.names] >>
                ELSE << >>)]

\* lines 263-283: the message for a signal that did not parse
signal_dropped(sig, f) ==
  << [t |-> f.why, s |-> IF f.why = "name" THEN sig.name ELSE sig.val] >>

\* signal_parsed with the stem's node created before the literal is parsed.
signal_parsed_node_first(t, sig, ctx, f, m) ==
  IF ~f.ok
  THEN [tree |-> IF m.some
                 THEN Put(t, CapStr(sig.name, m.v, "stem"),
                          GetOr(t, CapStr(sig.name, m.v, "stem"), EmptyMap))
                 ELSE t,
        msgs |-> signal_dropped(sig, f)]
  ELSE signal_inserted(f, ctx, insert_signal(t, f, ctx.port_name, ctx.pin_nr, ctx.name,
                                             ctx.gpio_mcu, ctx.gpio_version, ctx.mcus))

\* signal_step with the stem's node created before the literal is parsed.
signal_step_node_first(t, sig, ctx) ==
  signal_parsed_node_first(t, sig, ctx, parse_signal(sig), captures(STEM_REGEX, sig.name))

\* The loop body for a signal whose parse gave f.
signal_parsed(t, sig, ctx, f) ==
  IF ~f.ok
  THEN [tree |-> t, msgs |-> signal_dropped(sig, f)]
  ELSE signal_inserted(f, ctx, insert_signal(t, f, ctx.port_name, ctx.pin_nr, ctx.name,
                                             ctx.gpio_mcu, ctx.gpio_version, ctx.mcus))

\* update_af_tree, lines 261-315: the body of the loop over the signals of a
\* pin.  ctx holds the pin (port_name, pin_nr, name) and the arguments
\* gpio_mcu, gpio_version and mcus.  The result is the tree and what is
\* written to stderr.
signal_step(t, sig, ctx) == signal_parsed(t, sig, ctx, parse_signal(sig))

\* ------------------------------------------------------------------------
\* State
\* ------------------------------------------------------------------------
VARIABLES
  generate,         \* main: the target, "features", "pin_mappings" or "query"
  mcu_family,       \* main: the family on the command line
  catalog,          \* the MCUs of the family, as the family file lists them
  db,               \* the database: GPIO version -> the pins of its IP file
  af_stems,         \* main: the stem selection (-f), an Option
  mcu_gpio_map,     \* main: GPIO version -> MCU ref names (a HashMap)
  mcu_package_map,  \* main: MCU ref name -> package name (a HashMap)
  order,            \* the order in which this run's HashMap yields its keys
  pc,               \* where the program is
  caller,           \* who calls update_af_tree: "build" or "direct"
  tree,             \* AfTree.tree
  gpio_all,         \* AfTree.mcu_gpio_map
  gi,               \* build: position in the loop over mcu_gpio_map
  pi,               \* build: position in the loop over the pins of the file
  si,               \* update_af_tree: position in the loop over the signals
  cur,              \* build: gpio, gpio_mcu, gpio_version, mcus, file of this turn
  cur_pin,          \* update_af_tree: self
  pin_nr,           \* update_af_tree: pin_nr
  stderr,           \* what was written to stderr, a sequence of messages
  stdout,           \* what was written to stdout, a sequence of lines
  result,           \* what main, or the call, returned
  run,              \* 1 in the first run of the program, 2 in the second
  first,            \* the stdout, result and tree the first run ended with
  calls             \* direct calls of update_af_tree made so far

vars == << generate, mcu_family, catalog, db, af_stems, mcu_gpio_map, mcu_package_map,
           order, pc, caller, tree, gpio_all, gi, pi, si, cur, cur_pin, pin_nr,
           stderr, stdout, result, run, first, calls >>

inputs == << generate, mcu_family, catalog, db, af_stems >>
main_vars == << mcu_gpio_map, mcu_package_map, order, gpio_all, gi, pi, cur,
                stdout, result, run, first >>

\* ------------------------------------------------------------------------
\* GPIOPin::update_af_tree
\* ------------------------------------------------------------------------

\* Where update_af_tree returns to.
Return == IF caller = "build" THEN "pins" ELSE "idle"

Ctx == [port_name |-> cur_pin.port_name, pin_nr |-> pin_nr, name |-> cur_pin.name,
        gpio_mcu |-> cur.gpio_mcu, gpio_version |-> cur.gpio_version, mcus |-> cur.mcus]

\* lines 250-258: get_pin_nr; the process aborts when it panics.
update_af_tree_enter ==
  /\ pc = "enter"
  /\ LET r == get_pin_nr(cur_pin)
     IN  IF r.panic
         THEN /\ pc' = "panic"
              /\ UNCHANGED << stderr, pin_nr, si >>
         ELSE IF ~r.nr.some
         THEN /\ stderr' = Append(stderr, [t |-> "no_pin_nr", s |-> cur_pin.name])
              /\ pc' = Return
              /\ UNCHANGED << pin_nr, si >>
         ELSE /\ pin_nr' = r.nr.v
              /\ si' = 1
              /\ pc' = "signals"
              /\ UNCHANGED stderr
  /\ UNCHANGED << inputs, main_vars, caller, tree, cur_pin, calls >>

\* lines 260-316: one turn of the loop over self.pin_signal, or its end.
update_af_tree_signal ==
  /\ pc = "signals"
  /\ IF ~cur_pin.pin_signal.some \/ si > Len(cur_pin.pin_signal.v)
     THEN /\ pc' = Return
          /\ UNCHANGED << tree, stderr, si >>
     ELSE LET r == signal_step(tree, cur_pin.pin_signal.v[si], Ctx)
          IN  /\ tree' = r.tree
              /\ stderr' = stderr \o r.msgs
              /\ si' = si + 1
              /\ pc' = "signals"
  /\ UNCHANGED << inputs, main_vars, caller, cur_pin, pin_nr, calls >>

\* ------------------------------------------------------------------------
\* Direct calls of update_af_tree (it is a pub fn)
\* ------------------------------------------------------------------------

\* Bound: the number of direct calls.
MaxCalls == 2

Sig(n, v) == [name |-> n, val |-> v]
GpioPinParam(v) == [name |-> "GPIO_Pin", val |-> v]
MkPin(port, name, params, sigs) ==
  [port_name |-> port, name |-> name, specific_parameter |-> params, pin_signal |-> sigs]

NoPin == MkPin(<< >>, << >>, << >>, None)
NoCur == [gpio |-> << >>, gpio_mcu |-> << >>, gpio_version |-> << >>, mcus |-> {}, file |-> << >>]

\* The signal lists, pins and MCU sets the direct calls draw from.
InsertLists ==
  { << Sig(<<"U", "S", "A", "R", "T", "2", "_", "T", "X">>, <<"G", "P", "I", "O", "_", "A", "F", "7", "_", "U", "S", "A", "R", "T", "2">>) >>,
    << Sig(<<"u", "s", "a", "r", "t", "2", "_", "t", "x">>, <<"G", "P", "I", "O", "_", "A", "F", "7", "_", "U", "S", "A", "R", "T", "2">>), Sig(<<"U", "S", "A", "R", "T", "2", "_", "T", "X">>, <<"G", "P", "I", "O", "_", "A", "F", "7", "_", "U", "S", "A", "R", "T", "2">>) >>,
    << Sig(<<"I", "2", "C", "1", "_", "S", "C", "L">>, <<"G", "P", "I", "O", "_", "A", "F", "4">>), Sig(<<"I", "2", "C", "1", "_", "S", "C", "L">>, <<"G", "P", "I", "O", "_", "A", "F", "4", "_", "I", "2", "C", "1">>) >>,
    << Sig(<<"E", "V", "E", "N", "T", "O", "U", "T">>, <<"G", "P", "I", "O", "_", "A", "F", "1", "5", "_", "E", "V", "E", "N", "T", "O", "U", "T">>), Sig(<<"R", "C", "C">>, <<"A", "F", "0">>) >> }

InsertPins ==
  { MkPin(<<"P", "A">>, x[1], << GpioPinParam(x[2]) >>, Some(l)) :
      x \in { << <<"P", "A", "2">>, <<"G", "P", "I", "O", "_", "P", "I", "N", "_", "2">> >>, << <<"P", "A", "1", "0">>, <<"G", "P", "I", "O", "_", "P", "I", "N", "_", "1", "0">> >> },
      l \in InsertLists }

InsertMcus == { { <<"s", "t", "m", "3", "2", "f", "3", "0", "1">> }, { <<"s", "t", "m", "3", "2", "f", "3", "0", "2">> } }

InitMainIdle ==
  /\ generate = "none"
  /\ mcu_family = "none"
  /\ catalog = << >>
  /\ db = EmptyMap
  /\ af_stems = None
  /\ mcu_gpio_map = EmptyMap
  /\ mcu_package_map = EmptyMap
  /\ order = << >>
  /\ gpio_all = EmptyMap
  /\ gi = 0
  /\ pi = 0
  /\ stdout = << >>
  /\ result = None
  /\ run = 1
  /\ first = None

InitInsert ==
  /\ InitMainIdle
  /\ pc = "idle"
  /\ caller = "direct"
  /\ tree = EmptyMap
  /\ si = 0
  /\ cur = NoCur
  /\ cur_pin = NoPin
  /\ pin_nr = 0
  /\ stderr = << >>
  /\ calls = 0

\* A caller passes a pin, a GPIO version and an MCU set of its choice.
call_update_af_tree ==
  /\ pc = "idle"
  /\ calls < MaxCalls
  /\ \E p \in InsertPins, m \in InsertMcus :
       /\ cur_pin' = p
       /\ cur' = [NoCur EXCEPT !.gpio_mcu = <<"S", "T", "M", "3", "2", "F", "3", "0", "3">>, !.gpio_version = <<"g", "p", "i", "o", "_", "v", "1", "_", "0">>,
                               !.mcus = m]
  /\ calls' = calls + 1
  /\ pc' = "enter"
  /\ UNCHANGED << inputs, mcu_gpio_map, mcu_package_map, order, gpio_all, gi, pi,
                  stdout, result, run, first, caller, tree, si, pin_nr, stderr >>

NextInsert == call_update_af_tree \/ update_af_tree_enter \/ update_af_tree_signal

SpecInsert == InitInsert /\ [][NextInsert]_vars

\* ------------------------------------------------------------------------
\* C1
\* ------------------------------------------------------------------------

\* The signal the loop of update_af_tree is about to process.
AtSignal ==
  /\ pc = "signals"
  /\ cur_pin.pin_signal.some
  /\ si <= Len(cur_pin.pin_signal.v)
CurSig == cur_pin.pin_signal.v[si]
CurFields == parse_signal(CurSig)
CurLoc == << cur_pin.port_name, pin_nr >>

NumDuplicated(log) == Cardinality({ i \in 1..Len(log) : log[i].t = "duplicated" })

\* The leaf of tree t that the signal with fields f, about to be processed, is
\* inserted at.
CurHasLeaf(t, f) ==
  HasLeaf(t, f.stem, f.dev, << f.af, f.io >>, CurLoc, cur.gpio_mcu, cur.gpio_version)
CurLeaf(t, f) ==
  Leaf(t, f.stem, f.dev, << f.af, f.io >>, CurLoc, cur.gpio_mcu, cur.gpio_version)

\* The signal about to be processed is inserted at a key path that holds an
\* entry with another MCU set.
Collides(f) == AtSignal /\ f.ok /\ CurHasLeaf(tree, f) /\ CurLeaf(tree, f) # cur.mcus

\* C1: when update_af_tree inserts an MCU set at a key path that already holds
\* a different MCU set, the tree afterwards still holds the first-inserted set
\* (the second insertion is discarded) and exactly one conflict is logged.
C1_FirstInsertedSurvives ==
  [][ AtSignal =>
        LET f == CurFields
        IN  Collides(f) =>
              /\ CurLeaf(tree', f) = CurLeaf(tree, f)
              /\ NumDuplicated(stderr') = NumDuplicated(stderr) + 1 ]_vars

\* ------------------------------------------------------------------------
\* One call of update_af_tree on the empty tree, for a pin with one signal
\* ------------------------------------------------------------------------

\* Signal names made of a family, an instance number and a role.
Families ==
  { <<"U", "S", "A", "R", "T">>, <<"T", "I", "M">>, <<"S", "P", "I">>, <<"L", "P", "U", "A", "R", "T">>, <<"S", "Y", "S">>, <<"H", "D", "M", "I", "-", "C", "E", "C">>,
    <<"I", "2", "C">>, <<"I", "2", "S">>, <<"F", "M", "P", "I", "2", "C">>, <<"U", "S", "B", "_", "O", "T", "G", "_", "F", "S">> }
Instances == { <<"1">>, <<"2">>, <<"1", "0">> }
Roles == { <<"T", "X">>, <<"C", "H", "1", "N">>, <<"S", "C", "L">>, <<"S", "D", "_", "A">>, <<"J", "T", "M", "S", "-", "S", "W", "D", "I", "O">>, <<"c", "k">>, <<"D", "0">> }
Exts == { << >>, <<"e", "x", "t">> }

RegularName(f, d, x, r) == f \o d \o x \o <<"_">> \o r
RegularNames ==
  { RegularName(f, d, << >>, r) : f \in Families, d \in Instances, r \in Roles }
  \cup { RegularName(f, <<"3">>, <<"e", "x", "t">>, r) : f \in { <<"T", "I", "M">>, <<"I", "2", "S">> }, r \in Roles }

\* Names with no role, and names the pattern rejects.
OtherNames ==
  { <<"E", "V", "E", "N", "T", "O", "U", "T">>, <<"C", "E", "C">>, <<"R", "C", "C">>, <<"T", "I", "M", "2">>, <<"U", "S", "B", "_", "O", "T", "G", "_", "H", "S">>, <<"I", "2", "C", "3">>,
    <<"u", "s", "a", "r", "t", "2", "_", "t", "x">>, <<"I", "3", "C", "1", "_", "S", "C", "L">>, <<"U", "S", "A", "R", "T", "2", "_">>, <<"2", "T", "I", "M", "_", "C", "H", "1">>, <<"U", "S", "A", "R", "T", "2", " ", "T", "X">>, << >> }

GoodLiteral == <<"G", "P", "I", "O", "_", "A", "F", "7", "_", "U", "S", "A", "R", "T", "2">>
Literals ==
  { GoodLiteral, <<"G", "P", "I", "O", "_", "A", "F", "0", "_", "T", "I", "M", "_", "1">>, <<"G", "P", "I", "O", "_", "A", "F", "1", "4", "_", "X">>, <<"G", "P", "I", "O", "_", "a", "f", "1", "_", "x">>, <<"G", "P", "I", "O", "_", "7", "_", "1">>,
    <<"G", "P", "I", "O", "_", "A", "F", "7">>, <<"G", "P", "I", "O", "_", "A", "F", "7", "_">>, <<"A", "F", "7", "_", "U", "S", "A", "R", "T", "2">>, <<"g", "p", "i", "o", "_", "A", "F", "7", "_", "U", "S", "A", "R", "T", "2">>, <<"X", "G", "P", "I", "O", "_", "A", "F", "7", "_", "U", "S", "A", "R", "T", "2">>,
    <<"G", "P", "I", "O", "_", "_", "U", "S", "A", "R", "T", "2">>, <<"G", "P", "I", "O", "_", "A", "-", "F", "_", "U", "S", "A", "R", "T", "2">>, <<"G", "P", "I", "O", "_", "A", "F", " ", "7", "_", "U", "S", "A", "R", "T", "2">>, <<"G", "P", "I", "O", "_", "A", "F", "7", "_", "U", "S", "-", "A", "R", "T">>,
    <<"G", "P", "I", "O", "_">>, << >> }

ParseSigs ==
  { Sig(n, GoodLiteral) : n \in RegularNames \cup OtherNames }
  \cup { Sig(n, l) : n \in { <<"U", "S", "A", "R", "T", "2", "_", "T", "X">>, <<"R", "C", "C">>, <<"C", "E", "C">>, <<"u", "s", "a", "r", "t", "2", "_", "t", "x">> }, l \in Literals }

InitParse ==
  /\ InitMainIdle
  /\ pc = "enter"
  /\ caller = "direct"
  /\ tree = EmptyMap
  /\ si = 0
  /\ cur = [NoCur EXCEPT !.gpio_mcu = <<"S", "T", "M", "3", "2", "F", "3", "0", "3">>, !.gpio_version = <<"g", "p", "i", "o", "_", "v", "1", "_", "0">>,
                         !.mcus = { <<"s", "t", "m", "3", "2", "f", "3", "0", "3">> }]
  /\ \E s \in ParseSigs :
       cur_pin = MkPin(<<"P", "A">>, <<"P", "A", "9">>, << GpioPinParam(<<"G", "P", "I", "O", "_", "P", "I", "N", "_", "9">>) >>, Some(<< s >>))
  /\ pin_nr = 0
  /\ stderr = << >>
  /\ calls = 1

NextParse == update_af_tree_enter \/ update_af_tree_signal

SpecParse == InitParse /\ [][NextParse]_vars

\* ------------------------------------------------------------------------
\* C5 - C8
\* ------------------------------------------------------------------------

NameMatches(n) == captures(STEM_REGEX, n).some
LiteralMatches(v) == captures(AF_REGEX, v).some

\* The key paths of a tree: <<stem, dev, <<af, io>>, <<port, nr>>, gpio_mcu, gpio_version>>.
TreePaths(t) ==
  UNION { UNION { UNION { UNION { UNION {
    { << s, d, ai, l, g, v >> : v \in DOMAIN t[s][d][ai].pins[l].gpios[g] }
      : g \in DOMAIN t[s][d][ai].pins[l].gpios }
      : l \in DOMAIN t[s][d][ai].pins }
      : ai \in DOMAIN t[s][d] }
      : d \in DOMAIN t[s] }
      : s \in DOMAIN t }

\* C5: a signal whose name does not match the name pattern, or whose literal
\* does not match the literal pattern, leaves the tree as it was (no node is
\* created for it) and is reported, and the loop goes on with the next signal
\* of the pin.
C5_DroppedSignalLeavesTree ==
  [][ AtSignal =>
        ((~NameMatches(CurSig.name) \/ ~LiteralMatches(CurSig.val)) =>
           /\ tree' = tree
           /\ Len(stderr') = Len(stderr) + 1
           /\ pc' = "signals"
           /\ si' = si + 1
           /\ cur_pin' = cur_pin) ]_vars

\* In the second call, a signal was dropped and the next signal of the pin was
\* inserted.
C5_Witness ==
  /\ calls = 2
  /\ pc = "signals"
  /\ si = 3
  /\ NameMatches(cur_pin.pin_signal.v[1].name)
  /\ ~LiteralMatches(cur_pin.pin_signal.v[1].val)
  /\ parse_signal(cur_pin.pin_signal.v[2]).ok
  /\ \E p \in TreePaths(tree) :
       /\ p[1] = parse_signal(cur_pin.pin_signal.v[2]).stem
       /\ p[4] = << cur_pin.port_name, pin_nr >>

\* The one signal of the pin, and whether the loop has processed it.
TheSig == cur_pin.pin_signal.v[1]
Processed == si = 2

\* The name matches the pattern and has no role suffix.
RoleLess(n) == LET m == captures(STEM_REGEX, n) IN m.some /\ "io" \notin DOMAIN m.v
StemOf(n) == CapStr(n, captures(STEM_REGEX, n).v, "stem")
NoIoWarned(stem) == \E i \in 1..Len(stderr) : stderr[i].t = "no_io" /\ stderr[i].stem = stem

RoleIsStem(stem) ==
  /\ TreePaths(tree) # {}
  /\ \A p \in TreePaths(tree) : p[1] = stem /\ p[3][2] = stem
  /\ (NoIoWarned(stem) <=> stem \notin { <<"E", "V", "E", "N", "T", "O", "U", "T">>, <<"C", "E", "C">> })

\* C6 as claimed: when a signal name has no role suffix, io_role is set to the
\* stem and processing continues, and a missing-role warning is emitted if and
\* only if the stem is not EVENTOUT or CEC.
C6_RoleDefaultsToStem ==
  (Processed /\ RoleLess(TheSig.name)) => RoleIsStem(StemOf(TheSig.name))

\* C6 as amended: the same for a signal whose alternate-function literal
\* matches its pattern; a signal with no role suffix whose literal does not
\* match is dropped before the role is looked at, with no missing-role warning.
C6_RoleDefaultsToStemWhenParsed ==
  (Processed /\ RoleLess(TheSig.name)) =>
     IF LiteralMatches(TheSig.val)
     THEN RoleIsStem(StemOf(TheSig.name))
     ELSE tree = EmptyMap /\ ~NoIoWarned(StemOf(TheSig.name))

\* A signal named RCC was inserted with the role RCC and the warning.
C6_Witness ==
  /\ Processed
  /\ TheSig.name = <<"R", "C", "C">>
  /\ LiteralMatches(TheSig.val)
  /\ NoIoWarned(<<"R", "C", "C">>)
  /\ \E p \in TreePaths(tree) : p[3][2] = <<"R", "C", "C">>

IsPrefix(a, b) == Len(a) <= Len(b) /\ SubSeq(b, 1, Len(a)) = a

\* C7: a signal name made of a family name, instance digits (and an optional
\* ext) and an underscore followed by a role is stored with stem = the family
\* name, device = the family name followed by the digits (and the ext) and
\* io = the role; and every device key under a stem starts with that stem.
C7_NameDecomposition ==
  /\ \A s \in DOMAIN tree : \A d \in DOMAIN tree[s] : IsPrefix(s, d)
  /\ (Processed /\ LiteralMatches(TheSig.val)) =>
       \A f \in Families, d \in Instances \cup { <<"3">> }, x \in Exts, r \in Roles :
         TheSig.name = RegularName(f, d, x, r) =>
           /\ TreePaths(tree) # {}
           /\ \A p \in TreePaths(tree) : p[1] = f /\ p[2] = f \o d \o x /\ p[3][2] = r

\* I2C1_SCL was stored under the stem I2C and the device I2C1 with the role SCL.
C7_Witness ==
  /\ Processed
  /\ TheSig.name = <<"I", "2", "C", "1", "_", "S", "C", "L">>
  /\ \E p \in TreePaths(tree) : p[1] = <<"I", "2", "C">> /\ p[2] = <<"I", "2", "C", "1">> /\ p[3][2] = <<"S", "C", "L">>

\* The shape of an alternate-function literal: the text after GPIO_, its code
\* token (up to the first underscore) and the remainder after that underscore.
HasLead(l) == IsPrefix(<<"G", "P", "I", "O", "_">>, l)
AfterLead(l) == SubSeq(l, 6, Len(l))
CodeToken(l) == split(AfterLead(l), "_")[1]
HasRemainder(l) == Len(AfterLead(l)) > Len(CodeToken(l)) + 1
Remainder(l) == SubSeq(AfterLead(l), Len(CodeToken(l)) + 2, Len(AfterLead(l)))
AllIn(w, S) == \A i \in 1..Len(w) : w[i] \in S

BadLiteral(l) ==
  \/ ~HasLead(l)
  \/ CodeToken(l) = << >>
  \/ ~AllIn(CodeToken(l), Alnum)
  \/ ~HasRemainder(l)
WellFormedLiteral(l) ==
  /\ HasLead(l)
  /\ CodeToken(l) # << >>
  /\ AllIn(CodeToken(l), Alnum)
  /\ HasRemainder(l)
  /\ AllIn(Remainder(l), Word)

AfReported(l) == \E i \in 1..Len(stderr) : stderr[i].t = "af" /\ stderr[i].s = l

\* C8: the af code of a literal is the token between the leading GPIO_ and
\* the underscore-delimited remainder; a literal that lacks the leading GPIO_,
\* has an empty or non-alphanumeric code token, or has no non-empty remainder
\* after the underscore is a parse failure, and the signal is dropped.
C8_AfCode ==
  (Processed /\ NameMatches(TheSig.name)) =>
     /\ BadLiteral(TheSig.val) => (tree = EmptyMap /\ AfReported(TheSig.val))
     /\ WellFormedLiteral(TheSig.val) =>
          /\ TreePaths(tree) # {}
          /\ \A p \in TreePaths(tree) : p[3][1] = CodeToken(TheSig.val)

\* The literal GPIO_AF7_USART2 of a signal with a matching name has been
\* processed and every path of the tree carries the code AF7.
C8_Witness ==
  /\ Processed
  /\ NameMatches(TheSig.name)
  /\ TheSig.val = <<"G", "P", "I", "O", "_", "A", "F", "7", "_", "U", "S", "A", "R", "T", "2">>
  /\ \E p \in TreePaths(tree) : p[3][1] = <<"A", "F", "7">>

\* ------------------------------------------------------------------------
\* main.rs: text
\* ------------------------------------------------------------------------

\* [a, b, ...].join(sep)
RECURSIVE join(_, _)
join(v, sep) ==
  IF Len(v) = 0 THEN << >>
  ELSE IF Len(v) = 1 THEN v[1]
  ELSE v[1] \o sep \o join(Tail(v), sep)

\* {:?} of a string (the names of the database need no escapes) and of a Vec
DebugStr(w) == <<"\"">> \o w \o <<"\"">>
DebugVec(v) == <<"[">> \o join([i \in 1..Len(v) |-> DebugStr(v[i])], <<",", " ">>) \o <<"]">>

\* {} of a u32
RECURSIVE Dec(_)
Dec(n) == IF n < 10 THEN << Chr(48 + n) >> ELSE Dec(n \div 10) \o << Chr(48 + (n % 10)) >>

\* {:w} of a string, {:<w} of a number: padded on the right to w characters
RECURSIVE Pad(_, _)
Pad(w, n) == IF Len(w) >= n THEN w ELSE Pad(w \o <<" ">>, n)

Ok == [ok |-> TRUE]
Err(kind, msg) == [ok |-> FALSE, kind |-> kind, msg |-> msg]

\* gpio_version_to_feature
gpio_version_to_feature(version) ==
  LET m == captures(GPIO_VERSION, version)
  IN  IF m.some
      THEN [ok |-> TRUE, v |-> <<"i", "o", "-">> \o CapStr(version, m.v, "1")]
      ELSE Err("version", <<"C", "o", "u", "l", "d", " ", "n", "o", "t", " ", "p", "a", "r", "s", "e", " ", "v", "e", "r", "s", "i", "o", "n", " ">> \o DebugStr(version))

\* FEATURE_DEPENDENCIES: family -> pattern -> feature.  The patterns are
\* ^STM32L0.1, ^STM32L0.2 and ^STM32L0.3; is_match finds them at the start.
FEATURE_DEPENDENCIES ==
  [f \in {"STM32L0"} |->
     [d \in { <<"1">>, <<"2">>, <<"3">> } |-> <<"s", "t", "m", "3", "2", "l", "0", "x">> \o d]]

is_match(pattern_digit, mcu) ==
  captures(CatAll(<< Bos, Lit(<<"S", "T", "M", "3", "2", "L", "0">>), One(AnyChar), Lit(pattern_digit) >>), mcu).some

\* mcu_alias without the GPIO version feature among the dependencies.
mcu_alias_no_io(gpio_version_feature, mcu, package_map, family) ==
  LET package == IF mcu \in DOMAIN package_map
                 THEN << to_lowercase(package_map[mcu]) >> ELSE << >>
  IN  <<"m", "c", "u", "-">> \o mcu \o <<" ", "=", " ", "[">>
        \o join([i \in 1..Len(package) |-> DebugStr(package[i])], <<",", " ">>)
        \o <<"]">>

\* generate_features, lines 207-241: the alias line of one MCU.  At most one
\* pattern of a family matches a name, so the order of the inner HashMap
\* does not show.
mcu_alias(gpio_version_feature, mcu, package_map, family) ==
  LET extra == IF family \in DOMAIN FEATURE_DEPENDENCIES
               THEN LET hit == { d \in DOMAIN FEATURE_DEPENDENCIES[family] : is_match(d, mcu) }
                    IN  IF hit = {} THEN << >>
                        ELSE << FEATURE_DEPENDENCIES[family][CHOOSE d \in hit : TRUE] >>
               ELSE << >>
      package == IF mcu \in DOMAIN package_map
                 THEN << to_lowercase(package_map[mcu]) >> ELSE << >>
      dependencies == << gpio_version_feature >> \o extra \o package
  IN  <<"m", "c", "u", "-">> \o mcu \o <<" ", "=", " ", "[">>
        \o join([i \in 1..Len(dependencies) |-> DebugStr(dependencies[i])], <<",", " ">>)
        \o <<"]">>

\* Vec::dedup: consecutive equal elements removed
RECURSIVE dedup(_)
dedup(v) ==
  IF Len(v) < 2 THEN v
  ELSE IF v[1] = v[2] THEN dedup(Tail(v))
  ELSE << v[1] >> \o dedup(Tail(v))

\* generate_features.  keys is the order in which the HashMap mcu_gpio_map
\* yields its entries in this run; the result is what the function returns
\* and the lines it prints.
generate_features(gpio_map, package_map, family, keys) ==
  LET feats == [i \in 1..Len(keys) |-> gpio_version_to_feature(keys[i])]
      bad == { i \in 1..Len(keys) : ~feats[i].ok }
  IN  IF bad # {}
      THEN [result |-> feats[CHOOSE i \in bad : \A k \in bad : i <= k], lines |-> << >>]
      ELSE
        LET main_features == sort([i \in 1..Len(keys) |-> feats[i].v])
            debug == [i \in 1..Len(keys) |->
                        <<"g", "p", "i", "o", "_", "v", "e", "r", "s", "i", "o", "n", "_", "f", "e", "a", "t", "u", "r", "e", ":", " ">> \o DebugStr(keys[i]) \o <<" ">>
                          \o DebugVec(gpio_map[keys[i]])]
            aliases == Flatten([i \in 1..Len(keys) |->
                         [k \in 1..Len(gpio_map[keys[i]]) |->
                            mcu_alias(feats[i].v, gpio_map[keys[i]][k], package_map, family)]])
            mcu_aliases == sort(aliases)
            values == InSortedOrder({ to_lowercase(package_map[m]) : m \in DOMAIN package_map })
            packages == dedup(values)
        IN  [result |-> Ok,
             lines |->
               debug
               \o << <<"#", " ", "F", "e", "a", "t", "u", "r", "e", "s", " ", "b", "a", "s", "e", "d", " ", "o", "n", " ", "t", "h", "e", " ", "G", "P", "I", "O", " ", "p", "e", "r", "i", "p", "h", "e", "r", "a", "l", " ", "v", "e", "r", "s", "i", "o", "n">>,
                     <<"#", " ", "T", "h", "i", "s", " ", "d", "e", "t", "e", "r", "m", "i", "n", "e", "s", " ", "t", "h", "e", " ", "p", "i", "n", " ", "f", "u", "n", "c", "t", "i", "o", "n", " ", "m", "a", "p", "p", "i", "n", "g", " ", "o", "f", " ", "t", "h", "e", " ", "M", "C", "U">> >>
               \o [i \in 1..Len(main_features) |-> main_features[i] \o <<" ", "=", " ", "[", "]">>]
               \o << << >> >>
               \o (IF DOMAIN package_map # {}
                   THEN << <<"#", " ", "P", "h", "y", "s", "i", "c", "a", "l", " ", "p", "a", "c", "k", "a", "g", "e", "s">> >>
                        \o [i \in 1..Len(packages) |-> packages[i] \o <<" ", "=", " ", "[", "]">>]
                        \o << << >> >>
                   ELSE << >>)
               \o << <<"#", " ", "M", "C", "U", "s">> >>
               \o mcu_aliases]

\* ------------------------------------------------------------------------
\* The inputs of a run: the family, its MCUs and the GPIO files
\* ------------------------------------------------------------------------

\* Bound: the number of MCUs of the family.
MaxMcus == 2

\* An MCU of the family file, with the GPIO version its MCU file names.
Mcu(ref_name, package_name, gpio_version) ==
  [ref_name |-> ref_name, package_name |-> package_name, gpio_version |-> gpio_version]

McuPool ==
  [f \in {"STM32F1", "STM32F3", "STM32F4", "STM32L0"} |->
     CASE f = "STM32F1" ->
            << Mcu(<<"S", "T", "M", "3", "2", "F", "1", "0", "3", "C", "8", "T", "x">>, <<"L", "Q", "F", "P", "4", "8">>, <<"S", "T", "M", "3", "2", "F", "1", "0", "3", "x", "8", "_", "g", "p", "i", "o", "_", "v", "1", "_", "0">>) >>
       [] f = "STM32F3" ->
            << Mcu(<<"S", "T", "M", "3", "2", "F", "3", "0", "1", "K", "6", "U", "x">>, <<"U", "F", "Q", "F", "P", "N", "3", "2">>, <<"S", "T", "M", "3", "2", "F", "3", "0", "1", "_", "g", "p", "i", "o", "_", "v", "1", "_", "0">>),
              Mcu(<<"S", "T", "M", "3", "2", "F", "3", "0", "1", "C", "8", "T", "x">>, <<"L", "Q", "F", "P", "4", "8">>, <<"S", "T", "M", "3", "2", "F", "3", "0", "1", "_", "g", "p", "i", "o", "_", "v", "1", "_", "0">>),
              Mcu(<<"S", "T", "M", "3", "2", "F", "3", "0", "2", "C", "8", "T", "x">>, <<"L", "Q", "F", "P", "4", "8">>, <<"S", "T", "M", "3", "2", "F", "3", "0", "2", "_", "g", "p", "i", "o", "_", "v", "1", "_", "0">>),
              Mcu(<<"s", "t", "m", "3", "2", "f", "3", "0", "2", "k", "8">>, <<"U", "F", "Q", "F", "P", "N", "3", "2">>, <<"S", "T", "M", "3", "2", "F", "3", "0", "2", "_", "g", "p", "i", "o", "_", "v", "1", "_", "0">>),
              Mcu(<<"S", "T", "M", "3", "2", "F", "3", "1", "8", "K", "8", "U", "x">>, <<"U", "F", "Q", "F", "P", "N", "3", "2">>, <<"S", "T", "M", "3", "2", "F", "3", "-", "B", "_", "g", "p", "i", "o", "_", "v", "1", "_", "0">>),
              Mcu(<<"S", "T", "M", "3", "2", "F", "3", "7", "3", "V", "C", "T", "x">>, <<"L", "Q", "F", "P", "1", "0", "0">>, <<"S", "T", "M", "3", "2", "F", "3", "7", "3", "_", "g", "p", "i", "o", "_", "v", "2", "_", "0">>),
              Mcu(<<"S", "T", "M", "3", "2", "F", "3", "9", "8", "V", "E", "T", "x">>, <<"L", "Q", "F", "P", "1", "0", "0">>, <<"S", "T", "M", "3", "2", "F", "3", "9", "8", "_", "g", "p", "i", "o", "_", "v", "1", "_", "0">>) >>
       [] f = "STM32F4" ->
            << Mcu(<<"S", "T", "M", "3", "2", "F", "4", "0", "5", "R", "G", "T", "x">>, <<"L", "Q", "F", "P", "6", "4">>, <<"S", "T", "M", "3", "2", "F", "4", "1", "7", "_", "g", "p", "i", "o", "_", "v", "1", "_", "0">>),
               Mcu(<<"S", "T", "M", "3", "2", "F", "4", "1", "5", "R", "G", "T", "x">>, <<"L", "Q", "F", "P", "6", "4">>, <<"S", "T", "M", "3", "2", "F", "4", "1", "7", "_", "g", "p", "i", "o", "_", "v", "1", "_", "0">>),
               Mcu(<<"S", "T", "M", "3", "2", "F", "4", "2", "7", "V", "G", "T", "x">>, <<"L", "Q", "F", "P", "1", "0", "0">>, <<"S", "T", "M", "3", "2", "F", "4", "1", "7", "_", "g", "p", "i", "o", "_", "v", "1", "_", "1">>) >>
       [] f = "STM32L0" ->
            << Mcu(<<"S", "T", "M", "3", "2", "L", "0", "1", "1", "D", "3", "P", "x">>, <<"T", "S", "S", "O", "P", "1", "4">>, <<"S", "T", "M", "3", "2", "L", "0", "1", "1", "_", "g", "p", "i", "o", "_", "v", "1", "_", "0">>),
               Mcu(<<"S", "T", "M", "3", "2", "L", "0", "5", "2", "C", "6", "T", "x">>, <<"L", "Q", "F", "P", "4", "8">>, <<"S", "T", "M", "3", "2", "L", "0", "5", "2", "_", "g", "p", "i", "o", "_", "v", "1", "_", "0">>) >>]

\* The family files: 1..MaxMcus of the MCUs of a pool, in the order of the pool.
Catalogs(pool) ==
  { [k \in 1..Cardinality(at) |-> pool[InNumberOrder(at)[k]]] :
      at \in { x \in SUBSET (1..Len(pool)) : Cardinality(x) \in 1..MaxMcus } }

EventOut == Sig(<<"E", "V", "E", "N", "T", "O", "U", "T">>, <<"G", "P", "I", "O", "_", "A", "F", "1", "5", "_", "E", "V", "E", "N", "T", "O", "U", "T">>)
Pin(port, name, value, sigs) == MkPin(port, name, << GpioPinParam(value) >>, Some(sigs))

\* IP/GPIO-<version>_Modes.xml, for the versions that have a file.  One record
\* has no number after GPIO_PIN_, one has no signals, one has the pin name as
\* its GPIO_Pin value, and one has the same signal twice.
GpioFiles ==
  [g \in { <<"S", "T", "M", "3", "2", "F", "3", "0", "1", "_", "g", "p", "i", "o", "_", "v", "1", "_", "0">>, <<"S", "T", "M", "3", "2", "F", "3", "0", "2", "_", "g", "p", "i", "o", "_", "v", "1", "_", "0">>, <<"S", "T", "M", "3", "2", "F", "3", "-", "B", "_", "g", "p", "i", "o", "_", "v", "1", "_", "0">>,
           <<"S", "T", "M", "3", "2", "F", "3", "9", "8", "_", "g", "p", "i", "o", "_", "v", "1", "_", "0">>, <<"S", "T", "M", "3", "2", "F", "4", "1", "7", "_", "g", "p", "i", "o", "_", "v", "1", "_", "0">>, <<"S", "T", "M", "3", "2", "F", "4", "1", "7", "_", "g", "p", "i", "o", "_", "v", "1", "_", "1">>,
           <<"S", "T", "M", "3", "2", "L", "0", "1", "1", "_", "g", "p", "i", "o", "_", "v", "1", "_", "0">>, <<"S", "T", "M", "3", "2", "L", "0", "5", "2", "_", "g", "p", "i", "o", "_", "v", "1", "_", "0">> } |->
     CASE g = <<"S", "T", "M", "3", "2", "F", "3", "0", "1", "_", "g", "p", "i", "o", "_", "v", "1", "_", "0">> ->
            << Pin(<<"P", "A">>, <<"P", "A", "1", "0">>, <<"G", "P", "I", "O", "_", "P", "I", "N", "_", "1", "0">>,
                   << Sig(<<"U", "S", "A", "R", "T", "1", "_", "R", "X">>, <<"G", "P", "I", "O", "_", "A", "F", "7", "_", "U", "S", "A", "R", "T", "1">>), EventOut >>),
               Pin(<<"P", "B">>, <<"P", "B", "1">>, <<"G", "P", "I", "O", "_", "P", "I", "N", "_", "1">>, << EventOut >>),
               Pin(<<"P", "A">>, <<"P", "A", "2">>, <<"G", "P", "I", "O", "_", "P", "I", "N", "_", "2">>,
                   << Sig(<<"U", "S", "A", "R", "T", "2", "_", "T", "X">>, <<"G", "P", "I", "O", "_", "A", "F", "7", "_", "U", "S", "A", "R", "T", "2">>), EventOut >>) >>
       [] g = <<"S", "T", "M", "3", "2", "F", "3", "0", "2", "_", "g", "p", "i", "o", "_", "v", "1", "_", "0">> ->
            << Pin(<<"P", "A">>, <<"P", "A", "9">>, <<"G", "P", "I", "O", "_", "P", "I", "N", "_", "9">>,
                   << Sig(<<"U", "S", "A", "R", "T", "1", "_", "T", "X">>, <<"G", "P", "I", "O", "_", "A", "F", "7", "_", "U", "S", "A", "R", "T", "1">>),
                      Sig(<<"I", "2", "C", "2", "_", "S", "C", "L">>, <<"G", "P", "I", "O", "_", "A", "F", "4", "_", "I", "2", "C", "2">>) >>),
               Pin(<<"P", "A">>, <<"P", "A", "2">>, <<"G", "P", "I", "O", "_", "P", "I", "N", "_", "2">>, << EventOut >>),
               Pin(<<"P", "F">>, <<"P", "F", "0", "-", "O", "S", "C", "_", "I", "N">>, <<"G", "P", "I", "O", "_", "P", "I", "N", "_", "X">>, << EventOut >>),
               MkPin(<<"P", "C">>, <<"P", "C", "1", "3">>, << GpioPinParam(<<"G", "P", "I", "O", "_", "P", "I", "N", "_", "1", "3">>) >>, None) >>
       [] g = <<"S", "T", "M", "3", "2", "F", "3", "-", "B", "_", "g", "p", "i", "o", "_", "v", "1", "_", "0">> ->
            << Pin(<<"P", "A">>, <<"P", "A", "0">>, <<"G", "P", "I", "O", "_", "P", "I", "N", "_", "0">>, << EventOut >>) >>
       [] g = <<"S", "T", "M", "3", "2", "F", "3", "9", "8", "_", "g", "p", "i", "o", "_", "v", "1", "_", "0">> ->
            << Pin(<<"P", "A">>, <<"P", "A", "9">>, <<"P", "A", "9">>, << Sig(<<"U", "S", "A", "R", "T", "1", "_", "T", "X">>, <<"G", "P", "I", "O", "_", "A", "F", "7", "_", "U", "S", "A", "R", "T", "1">>) >>) >>
       [] g = <<"S", "T", "M", "3", "2", "F", "4", "1", "7", "_", "g", "p", "i", "o", "_", "v", "1", "_", "0">> ->
            << Pin(<<"P", "A">>, <<"P", "A", "9">>, <<"G", "P", "I", "O", "_", "P", "I", "N", "_", "9">>, << Sig(<<"U", "S", "A", "R", "T", "1", "_", "T", "X">>, <<"G", "P", "I", "O", "_", "A", "F", "7", "_", "U", "S", "A", "R", "T", "1">>) >>) >>
       [] g = <<"S", "T", "M", "3", "2", "F", "4", "1", "7", "_", "g", "p", "i", "o", "_", "v", "1", "_", "1">> ->
            << Pin(<<"P", "A">>, <<"P", "A", "9">>, <<"G", "P", "I", "O", "_", "P", "I", "N", "_", "9">>, << Sig(<<"U", "S", "A", "R", "T", "1", "_", "T", "X">>, <<"G", "P", "I", "O", "_", "A", "F", "7", "_", "U", "S", "A", "R", "T", "1">>) >>),
               Pin(<<"P", "A">>, <<"P", "A", "1", "0">>, <<"G", "P", "I", "O", "_", "P", "I", "N", "_", "1", "0">>,
                   << Sig(<<"U", "S", "A", "R", "T", "1", "_", "R", "X">>, <<"G", "P", "I", "O", "_", "A", "F", "7", "_", "U", "S", "A", "R", "T", "1">>),
                      Sig(<<"U", "S", "A", "R", "T", "1", "_", "R", "X">>, <<"G", "P", "I", "O", "_", "A", "F", "7", "_", "U", "S", "A", "R", "T", "1">>) >>) >>
       [] g = <<"S", "T", "M", "3", "2", "L", "0", "1", "1", "_", "g", "p", "i", "o", "_", "v", "1", "_", "0">> ->
            << Pin(<<"P", "A">>, <<"P", "A", "9">>, <<"G", "P", "I", "O", "_", "P", "I", "N", "_", "9">>,
                   << Sig(<<"U", "S", "A", "R", "T", "2", "_", "T", "X">>, <<"G", "P", "I", "O", "_", "A", "F", "4", "_", "U", "S", "A", "R", "T", "2">>) >>) >>
       [] g = <<"S", "T", "M", "3", "2", "L", "0", "5", "2", "_", "g", "p", "i", "o", "_", "v", "1", "_", "0">> ->
            << Pin(<<"P", "A">>, <<"P", "A", "9">>, <<"G", "P", "I", "O", "_", "P", "I", "N", "_", "9">>,
                   << Sig(<<"U", "S", "A", "R", "T", "1", "_", "T", "X">>, <<"G", "P", "I", "O", "_", "A", "F", "4", "_", "U", "S", "A", "R", "T", "1">>) >>),
               Pin(<<"P", "A">>, <<"P", "A", "1", "0">>, <<"G", "P", "I", "O", "_", "P", "I", "N", "_", "1", "0">>,
                   << Sig(<<"U", "S", "A", "R", "T", "1", "_", "R", "X">>, <<"G", "P", "I", "O", "_", "A", "F", "4", "_", "U", "S", "A", "R", "T", "1">>) >>) >>]


Selections == { None, Some(<< <<"U", "S", "A", "R", "T">> >>), Some(<< <<"C", "A", "N">>, <<"U", "S", "A", "R", "T">>, <<"S", "P", "I">> >>) }

\* The orders in which a HashMap with the keys S can yield them.
Orders(S) == { o \in [1..Cardinality(S) -> S] : \A i, j \in DOMAIN o : o[i] = o[j] => i = j }

Init ==
  /\ generate \in {"features", "pin_mappings", "query"}
  /\ mcu_family \in DOMAIN McuPool
  /\ catalog \in Catalogs(McuPool[mcu_family])
  /\ db = GpioFiles
  /\ af_stems \in Selections
  /\ mcu_gpio_map = EmptyMap
  /\ mcu_package_map = EmptyMap
  /\ order = << >>
  /\ pc = "main"
  /\ caller = "build"
  /\ tree = EmptyMap
  /\ gpio_all = EmptyMap
  /\ gi = 0
  /\ pi = 0
  /\ si = 0
  /\ cur = NoCur
  /\ cur_pin = NoPin
  /\ pin_nr = 0
  /\ stderr = << >>
  /\ stdout = << >>
  /\ result = None
  /\ run = 1
  /\ first = None
  /\ calls = 0

\* ------------------------------------------------------------------------
\* main
\* ------------------------------------------------------------------------

\* main, lines 130-154: mcu_gpio_map and mcu_package_map
gpio_map_of(cat) ==
  [g \in { cat[i].gpio_version : i \in DOMAIN cat } |->
     LET at == SelectSeq([i \in DOMAIN cat |-> i], LAMBDA i : cat[i].gpio_version = g)
     IN  [k \in 1..Len(at) |-> cat[at[k]].ref_name]]

package_map_of(cat, family) ==
  IF family = "STM32L0"
  THEN [r \in { cat[i].ref_name : i \in DOMAIN cat } |->
          cat[CHOOSE i \in DOMAIN cat :
                /\ cat[i].ref_name = r
                /\ \A k \in DOMAIN cat : cat[k].ref_name = r => k <= i].package_name]
  ELSE EmptyMap

\* main, lines 126-167: the two maps are built, and the target is dispatched.
\* order is the order in which this run's mcu_gpio_map yields its entries.
main_load ==
  /\ pc = "main"
  /\ mcu_gpio_map' = gpio_map_of(catalog)
  /\ mcu_package_map' = package_map_of(catalog, mcu_family)
  /\ order' \in Orders(DOMAIN gpio_map_of(catalog))
  /\ pc' = IF generate = "features" THEN "features" ELSE "build"
  /\ UNCHANGED << inputs, caller, tree, gpio_all, gi, pi, si, cur, cur_pin, pin_nr,
                  stderr, stdout, result, run, first, calls >>

\* main, line 157: generate_features, and main returns what it returns.
main_generate_features ==
  /\ pc = "features"
  /\ LET r == generate_features(mcu_gpio_map, mcu_package_map, mcu_family, order)
     IN  /\ stdout' = stdout \o r.lines
         /\ result' = Some(r.result)
  /\ pc' = "done"
  /\ UNCHANGED << inputs, mcu_gpio_map, mcu_package_map, order, caller, tree, gpio_all,
                  gi, pi, si, cur, cur_pin, pin_nr, stderr, run, first, calls >>

\* The program is run a second time on the same input.
run_again ==
  /\ pc \in {"done", "panic"}
  /\ run = 1
  /\ first' = Some([stdout |-> stdout, result |-> result, tree |-> tree, pc |-> pc,
                    order |-> order])
  /\ run' = 2
  /\ pc' = "main"
  /\ mcu_gpio_map' = EmptyMap
  /\ mcu_package_map' = EmptyMap
  /\ order' = << >>
  /\ caller' = "build"
  /\ tree' = EmptyMap
  /\ gpio_all' = EmptyMap
  /\ gi' = 0
  /\ pi' = 0
  /\ si' = 0
  /\ cur' = NoCur
  /\ cur_pin' = NoPin
  /\ pin_nr' = 0
  /\ stderr' = << >>
  /\ stdout' = << >>
  /\ result' = None
  /\ UNCHANGED << inputs, calls >>

\* ------------------------------------------------------------------------
\* AfTree::build
\* ------------------------------------------------------------------------

\* Every family whose name starts with STM32F is refused.
family_unsupported_all_f(family) == family \in {"STM32F1", "STM32F3"}

\* build, lines 111-113
family_unsupported(family) == family = "STM32F1"


\* mcus_simplified with a name that does not parse kept whole, in lower case.
mcus_simplified_keeping(mcus) ==
  LET m == [i \in 1..Len(mcus) |-> captures(MCUS_REGEX, mcus[i])]
      bad == SelectSeq([i \in 1..Len(mcus) |-> i], LAMBDA i : ~m[i].some)
  IN  [set |-> { IF m[i].some THEN to_lowercase(CapStr(mcus[i], m[i].v, "mcu"))
                 ELSE to_lowercase(mcus[i]) : i \in 1..Len(mcus) },
       msgs |-> [k \in 1..Len(bad) |-> [t |-> "mcu", s |-> mcus[bad[k]]]]]

\* build, lines 146-161, with simplify_mcu_names: the names that parse, cut
\* to their STM32[A-Z]+[0-9]+ part and lowercased, and a message for each
\* name that does not parse.
mcus_simplified(mcus) ==
  LET m == [i \in 1..Len(mcus) |-> captures(MCUS_REGEX, mcus[i])]
      bad == SelectSeq([i \in 1..Len(mcus) |-> i], LAMBDA i : ~m[i].some)
  IN  [set |-> { to_lowercase(CapStr(mcus[i], m[i].v, "mcu")) :
                   i \in { k \in 1..Len(mcus) : m[k].some } },
       msgs |-> [k \in 1..Len(bad) |-> [t |-> "mcu", s |-> mcus[bad[k]]]]]

\* build, lines 111-115
build_start ==
  /\ pc = "build"
  /\ IF family_unsupported(mcu_family)
     THEN /\ result' = Some(Err("unsupported",
                               <<"T", "h", "e", " ", "S", "T", "M", "3", "2", "F", "1", "-", "f", "a", "m", "i", "l", "y", " ", "i", "s", " ", "u", "n", "f", "o", "r", "u", "n", "a", "t", "e", "l", "y", " ", "n", "o", "t", " ", "s", "u", "p", "p", "o", "r", "t", "e", "d", "!", " ", "(", "s", "e", "e", " ">>
                                 \o DebugStr(<<"T", "O", "D", "O", " ", "f", "1", " ", "c", "o", "m", "p", "a", "t", "i", "b", "i", "l", "i", "t", "y">>)
                                 \o <<" ", "i", "n", " ", "i", "n", "t", "e", "r", "n", "a", "l", "_", "p", "e", "r", "i", "p", "h", "e", "r", "a", "l", "s", ".", "r", "s", ")">>))
          /\ pc' = "done"
          /\ UNCHANGED gi
     ELSE /\ gi' = 1
          /\ pc' = "gpio"
          /\ UNCHANGED result
  /\ UNCHANGED << inputs, mcu_gpio_map, mcu_package_map, order, caller, tree, gpio_all,
                  pi, si, cur, cur_pin, pin_nr, stderr, stdout, run, first, calls >>

\* build, lines 122-163: the next entry of mcu_gpio_map; its file is loaded and
\* its name and the names of its MCUs are parsed.
build_next_gpio ==
  /\ pc = "gpio"
  /\ gi <= Len(order)
  /\ LET gpio == order[gi]
         m == captures(GPIO_REGEX, gpio)
         ms == mcus_simplified(mcu_gpio_map[gpio])
     IN  IF gpio \notin DOMAIN db
         THEN /\ stderr' = Append(stderr, [t |-> "load", s |-> gpio])
              /\ gi' = gi + 1
              /\ UNCHANGED << pc, cur, pi >>
         ELSE IF ~m.some
         THEN /\ stderr' = Append(stderr, [t |-> "gpio", s |-> gpio])
              /\ gi' = gi + 1
              /\ UNCHANGED << pc, cur, pi >>
         ELSE /\ cur' = [gpio |-> gpio,
                         gpio_mcu |-> CapStr(gpio, m.v, "gpio"),
                         gpio_version |-> CapStr(gpio, m.v, "version"),
                         mcus |-> ms.set,
                         file |-> db[gpio]]
              /\ stderr' = Append(stderr, [t |-> "gpio_is", s |-> gpio]) \o ms.msgs
              /\ pi' = 1
              /\ pc' = "pins"
              /\ UNCHANGED gi
  /\ UNCHANGED << inputs, mcu_gpio_map, mcu_package_map, order, caller, tree, gpio_all,
                  si, cur_pin, pin_nr, stdout, result, run, first, calls >>

\* build, lines 165-167: update_af_tree is called for the next pin of the file.
build_next_pin ==
  /\ pc = "pins"
  /\ pi <= Len(cur.file)
  /\ cur_pin' = cur.file[pi]
  /\ pi' = pi + 1
  /\ pc' = "enter"
  /\ UNCHANGED << inputs, mcu_gpio_map, mcu_package_map, order, caller, tree, gpio_all,
                  gi, si, cur, pin_nr, stderr, stdout, result, run, first, calls >>

\* build, lines 169-181: after the last pin, the version is entered in
\* mcu_gpio_map of the tree.
build_gpio_end ==
  /\ pc = "pins"
  /\ pi > Len(cur.file)
  /\ LET old == GetOr(gpio_all, cur.gpio_mcu, [gpio |-> cur.gpio, versions |-> EmptyMap])
         duplicated == cur.gpio_version \in DOMAIN old.versions
     IN  /\ gpio_all' = Put(gpio_all, cur.gpio_mcu,
                            [gpio |-> old.gpio,
                             versions |-> Put(old.versions, cur.gpio_version, cur.mcus)])
         /\ stderr' = IF duplicated
                      THEN Append(stderr, [t |-> "gpio_duplicated", gpio_mcu |-> cur.gpio_mcu,
                                           gpio_version |-> cur.gpio_version,
                                           a |-> old.gpio, b |-> cur.gpio,
                                           harmless |-> old.versions[cur.gpio_version] = cur.mcus])
                      ELSE stderr
  /\ gi' = gi + 1
  /\ pc' = "gpio"
  /\ UNCHANGED << inputs, mcu_gpio_map, mcu_package_map, order, caller, tree,
                  pi, si, cur, cur_pin, pin_nr, stdout, result, run, first, calls >>

\* build, line 183: Ok(af); main goes on to the generator.
build_return ==
  /\ pc = "gpio"
  /\ gi > Len(order)
  /\ pc' = "generate"
  /\ UNCHANGED << inputs, mcu_gpio_map, mcu_package_map, order, caller, tree, gpio_all,
                  gi, pi, si, cur, cur_pin, pin_nr, stderr, stdout, result, run, first, calls >>

\* ------------------------------------------------------------------------
\* AfTree::iter and display_af_tree
\* ------------------------------------------------------------------------

\* The order of the keys (port-name, pin-number) if the number were compared
\* as text.
PinKeyLess_text(a, b) ==
  StringLess(a[1], b[1]) \/ (a[1] = b[1] /\ StringLess(Dec(a[2]), Dec(b[2])))

\* Ord of (String, u32), the key of AfTreePins
PinKeyLess(a, b) == StringLess(a[1], b[1]) \/ (a[1] = b[1] /\ a[2] < b[2])
InPinOrder(S) == Ranked(S, { p \in S \X S : PinKeyLess(p[1], p[2]) })

\* Ord of (SortedString, SortedString), the key of AfTreeIos
InAfIoOrder(S) ==
  Ranked(S, { p \in S \X S : \/ SortedLess(p[1][1], p[2][1])
                             \/ p[1][1] = p[2][1] /\ SortedLess(p[1][2], p[2][2]) })

\* iter that refuses a selection only when none of its stems is in the tree.
AfTree_iter_any(t, stem_selection) ==
  IF stem_selection.some /\ \A i \in 1..Len(stem_selection.v) : stem_selection.v[i] \notin DOMAIN t
  THEN Err("invalid_stems", <<"I", "n", "v", "a", "l", "i", "d", " ", "s", "t", "e", "m", "s", " ", "d", "e", "t", "e", "c", "t", "e", "d", "!", " ", "(">>
                             \o join(stem_selection.v, <<"'", ",", "'">>) \o <<")">>)
  ELSE [ok |-> TRUE,
        v |-> SelectSeq(InSortedOrder(DOMAIN t),
                        LAMBDA k : ~stem_selection.some
                                   \/ \E i \in 1..Len(stem_selection.v) : stem_selection.v[i] = k)]

\* AfTree::iter: the selected stems in the order of the tree, or the error.
AfTree_iter(t, stem_selection) ==
  IF stem_selection.some
  THEN LET sel == stem_selection.v
           invalid_stems == SelectSeq(sel, LAMBDA stem : stem \notin DOMAIN t)
       IN  IF Len(invalid_stems) # 0
           THEN Err("invalid_stems",
                    <<"I", "n", "v", "a", "l", "i", "d", " ", "s", "t", "e", "m">> \o (IF Len(invalid_stems) = 1 THEN << >> ELSE <<"s">>)
                      \o <<" ", "d", "e", "t", "e", "c", "t", "e", "d", "!", " ", "(">> \o join(invalid_stems, <<"'", ",", "'">>) \o <<")">>)
           ELSE [ok |-> TRUE,
                 v |-> SelectSeq(InSortedOrder(DOMAIN t),
                                 LAMBDA k : \E i \in 1..Len(sel) : sel[i] = k)]
  ELSE [ok |-> TRUE, v |-> InSortedOrder(DOMAIN t)]

\* grouped_mcus with the MCUs of every version of each gpio.
grouped_mcus_all_versions(pin) ==
  UNION { UNION { pin.gpios[g][v] : v \in DOMAIN pin.gpios[g] } : g \in DOMAIN pin.gpios }

\* lines 403-412: the MCUs of a pin, from the first version of each gpio
grouped_mcus(pin) ==
  UNION { pin.gpios[g][InSortedOrder(DOMAIN pin.gpios[g])[1]] : g \in DOMAIN pin.gpios }

\* lines 396-401: what the nested loops visit, in their order: one record for
\* each pin of each (af, io) of each device of the stems iter yields
visited_pins(s, d, ai, node) ==
  LET ls == InPinOrder(DOMAIN node.pins)
  IN  [i \in 1..Len(ls) |->
         [stem |-> s, dev |-> d, af |-> ai[1], io |-> ai[2], io_name |-> node.io_name,
          loc |-> ls[i], gpios |-> node.pins[ls[i]].gpios,
          mcus |-> grouped_mcus(node.pins[ls[i]])]]

visited_ios(s, d, io_map) ==
  LET ks == InAfIoOrder(DOMAIN io_map)
  IN  Flatten([i \in 1..Len(ks) |-> visited_pins(s, d, ks[i], io_map[ks[i]])])

visited_devs(s, dev_map) ==
  LET ds == InSortedOrder(DOMAIN dev_map)
  IN  Flatten([i \in 1..Len(ds) |-> visited_ios(s, ds[i], dev_map[ds[i]])])


\* lines 407-409: the message for each gpio of a visited pin that has more
\* than one version
multiple_versions(pin) ==
  LET gs == SelectSeq(InSortedOrder(DOMAIN pin.gpios),
                      LAMBDA g : Cardinality(DOMAIN pin.gpios[g]) > 1)
  IN  [i \in 1..Len(gs) |->
         [t |-> "multiple_versions", versions |-> InSortedOrder(DOMAIN pin.gpios[gs[i]])]]

\* display_af_tree, lines 315-316 (verbose = false)
io_line(af, io, node) ==
  LET keys == InPinOrder(DOMAIN node.pins)
      pin_names == [i \in 1..Len(keys) |-> keys[i][1] \o Pad(Dec(keys[i][2]), 2)]
  IN  <<" ", " ", " ", " ">> \o Pad(af, 4) \o <<":", " ">> \o Pad(node.io_name, 10) \o <<" ", "=", "=", " ">> \o Pad(io, 8)
        \o <<" ", "=", "[", " ">> \o join(pin_names, <<" ", "|", " ">>)

\* display_af_tree, lines 318-335 (verbose = true): the lines of an (af, io),
\* of each of its pins, and of each gpio of a pin: its first version and the
\* MCUs of that version
io_lines_verbose(af, io, node) ==
  LET gpio_lines(gpio_mcu, versions) ==
        LET version == InSortedOrder(DOMAIN versions)[1]
            mcus == InSortedOrder(versions[version])
        IN  << <<" ", " ", " ", " ", " ", " ", " ", " ", "g", "p", "i", "o", "-", "g", "r", "o", "u", "p", ":", " ">> \o gpio_mcu, <<" ", " ", " ", " ", " ", " ", " ", " ", "g", "p", "i", "o", "-", "v", "e", "r", "s", "i", "o", "n", ":", " ">> \o version >>
              \o [i \in 1..Len(mcus) |-> <<" ", " ", " ", " ", " ", " ", " ", " ", " ", " ">> \o mcus[i]]
      pin_lines(loc, gpio_map) ==
        LET gs == InSortedOrder(DOMAIN gpio_map)
        IN  << <<" ", " ", " ", " ", " ", " ">> \o loc[1] \o Dec(loc[2]) >>
              \o Flatten([i \in 1..Len(gs) |-> gpio_lines(gs[i], gpio_map[gs[i]])])
      keys == InPinOrder(DOMAIN node.pins)
  IN  << <<" ", " ", " ", " ">> \o Pad(af, 4) \o <<":", " ">> \o node.io_name \o <<" ", "(">> \o io \o <<")">> >>
        \o Flatten([i \in 1..Len(keys) |-> pin_lines(keys[i], node.pins[keys[i]].gpios)])

dev_lines(dev, io_map, verbose) ==
  LET keys == InAfIoOrder(DOMAIN io_map)
  IN  << <<" ", " ">> \o dev >>
        \o Flatten([i \in 1..Len(keys) |->
                      IF verbose
                      THEN io_lines_verbose(keys[i][1], keys[i][2], io_map[keys[i]])
                      ELSE << io_line(keys[i][1], keys[i][2], io_map[keys[i]]) >>])

stem_lines(stem, dev_map, verbose) ==
  LET keys == InSortedOrder(DOMAIN dev_map)
  IN  << stem >>
        \o Flatten([i \in 1..Len(keys) |-> dev_lines(keys[i], dev_map[keys[i]], verbose)])

\* display_af_tree: what it returns, what it prints, and what it writes to
\* stderr (lines 329-331, with verbose only)
display_af_tree(t, af_stem_selection, verbose) ==
  LET it == AfTree_iter(t, af_stem_selection)
  IN  IF ~it.ok THEN [result |-> it, lines |-> << >>, msgs |-> << >>]
      ELSE [result |-> Ok,
            lines |-> Flatten([i \in 1..Len(it.v) |-> stem_lines(it.v[i], t[it.v[i]], verbose)]),
            msgs |-> IF verbose
                     THEN Flatten([i \in 1..Len(it.v) |->
                            Flatten([k \in 1..Len(visited_devs(it.v[i], t[it.v[i]])) |->
                              multiple_versions(visited_devs(it.v[i], t[it.v[i]])[k])])])
                     ELSE << >>]

\* main, lines 163-164: display_af_tree on the tree build returned, with
\* verbose = false
main_display_af_tree ==
  /\ pc = "generate"
  /\ generate = "query"
  /\ LET r == display_af_tree(tree, af_stems, FALSE)
     IN  /\ stdout' = stdout \o r.lines
         /\ result' = Some(r.result)
  /\ pc' = "done"
  /\ UNCHANGED << inputs, mcu_gpio_map, mcu_package_map, order, caller, tree, gpio_all,
                  gi, pi, si, cur, cur_pin, pin_nr, stderr, run, first, calls >>

\* ------------------------------------------------------------------------
\* generate_pin_mappings
\* ------------------------------------------------------------------------

\* Ord of a BTreeSet<&SortedString>: its elements in order, compared one by
\* one, a proper prefix first.
RECURSIVE SeqLess(_, _, _)
SeqLess(a, b, i) ==
  IF i > Len(b) THEN FALSE
  ELSE IF i > Len(a) THEN TRUE
  ELSE IF SortedLess(a[i], b[i]) THEN TRUE
  ELSE IF SortedLess(b[i], a[i]) THEN FALSE
  ELSE SeqLess(a, b, i + 1)

InSetOrder(S) ==
  Ranked(S, { p \in S \X S : SeqLess(InSortedOrder(p[1]), InSortedOrder(p[2]), 1) })

\* Ord of (SortedString, &str)
InTraitOrder(S) ==
  Ranked(S, { p \in S \X S : \/ SortedLess(p[1][1], p[2][1])
                             \/ p[1][1] = p[2][1] /\ StringLess(p[1][2], p[2][2]) })

\* Ord of (SortedString, u32, SortedString, SortedString, SortedString), the
\* entries of mct: (port, pin number, af, io name, dev)
MctLess(a, b) ==
  \/ SortedLess(a[1], b[1])
  \/ a[1] = b[1] /\ a[2] < b[2]
  \/ a[1] = b[1] /\ a[2] = b[2] /\ SortedLess(a[3], b[3])
  \/ a[1] = b[1] /\ a[2] = b[2] /\ a[3] = b[3] /\ SortedLess(a[4], b[4])
  \/ a[1] = b[1] /\ a[2] = b[2] /\ a[3] = b[3] /\ a[4] = b[4] /\ SortedLess(a[5], b[5])
InMctOrder(S) == Ranked(S, { p \in S \X S : MctLess(p[1], p[2]) })

\* by_mcus with every key put in each group whose MCU set shares an MCU with
\* its own.
by_mcus_overlapping(c) ==
  [m \in { c[k] : k \in DOMAIN c } |-> { k \in DOMAIN c : c[k] \cap m # {} }]

\* by_mcus with every key put in each group whose MCU set contains its own.
by_mcus_covering(c) == [m \in { c[k] : k \in DOMAIN c } |-> { k \in DOMAIN c : c[k] \subseteq m }]

\* collect with the MCUs of one of the visited pins with the key only.
collect_one_pin(key) ==
  [k \in { key[p] : p \in DOMAIN key } |->
     (CHOOSE p \in { q \in DOMAIN key : key[q] = k } : TRUE).mcus]

\* lines 420-434: a ..._collect map, key -> the MCUs of all visited pins with
\* that key; and lines 437-458: the map turned around, MCU set -> its keys.
collect(key) ==
  [k \in { key[p] : p \in DOMAIN key } |->
     UNION { p.mcus : p \in { q \in DOMAIN key : key[q] = k } }]
by_mcus(c) == [m \in { c[k] : k \in DOMAIN c } |-> { k \in DOMAIN c : c[k] = m }]

\* lines 456: the module of a port, gpio + the port name without its first
\* character, lowercased
gpio_module(port) == <<"g", "p", "i", "o">> \o to_lowercase(SubSeq(port, 2, Len(port)))

\* group_iteration that takes only the first MCU out of iot_ex.
group_iteration_first_out(iot_ex, io_traits_grouped, how) ==
  CHOOSE turn \in
    { [iot_ex |-> [mcu \in DOMAIN iot_ex \ {l.mi} |-> iot_ex[mcu]],
       io_traits_grouped |-> Put(io_traits_grouped, l.mcus, iot_ex[l.mi]),
       how |-> IF l.mcus \in DOMAIN io_traits_grouped THEN how + 1 ELSE how] :
      l \in { [mi |-> mi,
               mcus |-> { mcu \in DOMAIN iot_ex : iot_ex[mcu] = iot_ex[mi] } \cup {mi}] :
              mi \in { InSortedOrder(DOMAIN iot_ex)[1] } } } : TRUE

\* lines 518-530: one turn of the loop over iot_ex: the first MCU (mi) and
\* the MCUs with the same io traits make a group (mcus), and are taken out of
\* iot_ex; l holds these two locals of the turn.
group_iteration(iot_ex, io_traits_grouped, how) ==
  CHOOSE turn \in
    { [iot_ex |-> [mcu \in DOMAIN iot_ex \ l.mcus |-> iot_ex[mcu]],
       io_traits_grouped |-> Put(io_traits_grouped, l.mcus, iot_ex[l.mi]),
       how |-> IF l.mcus \in DOMAIN io_traits_grouped THEN how + 1 ELSE how] :
      l \in { [mi |-> mi,
               mcus |-> { mcu \in DOMAIN iot_ex : iot_ex[mcu] = iot_ex[mi] } \cup {mi}] :
              mi \in { InSortedOrder(DOMAIN iot_ex)[1] } } } : TRUE

\* lines 499-532: the loop that groups the MCUs with the same io traits.  The
\* result is the map and the number of times a group was entered twice.
RECURSIVE group_loop(_, _, _)
group_loop(iot_ex, io_traits_grouped, how) ==
  IF DOMAIN iot_ex = {} THEN [grouped |-> io_traits_grouped, how |-> how]
  ELSE LET mi == InSortedOrder(DOMAIN iot_ex)[1]
           mcus == { mcu \in DOMAIN iot_ex : iot_ex[mcu] = iot_ex[mi] } \cup {mi}
       IN  group_loop([mcu \in DOMAIN iot_ex \ mcus |-> iot_ex[mcu]],
                      Put(io_traits_grouped, mcus, iot_ex[mi]),
                      IF mcus \in DOMAIN io_traits_grouped THEN how + 1 ELSE how)

\* lines 428-430 and 442-447: the (stem, io name, io) keys of each MCU set,
\* by the stem in Pascal case
io_traits_by_peripheral(by_peripheral) ==
  [m \in DOMAIN by_peripheral |->
     [st \in { to_pascalcase(k[1]) : k \in by_peripheral[m] } |->
        { << k[2], k[3] >> : k \in { x \in by_peripheral[m] : to_pascalcase(x[1]) = st } }]]

\* lines 504-516: for each MCU, the io traits of all the MCU sets it is in
io_traits_extended(iotp) ==
  [mcu \in UNION DOMAIN iotp |->
     [st \in UNION { DOMAIN iotp[m] : m \in { x \in DOMAIN iotp : mcu \in x } } |->
        UNION { iotp[m][st] : m \in { x \in DOMAIN iotp : mcu \in x /\ st \in DOMAIN iotp[x] } }]]

\* lines 454-458: the locations of each MCU set, by the module of their port
gpios_by_module(by_location) ==
  [m \in DOMAIN by_location |->
     [g \in { gpio_module(l[1]) : l \in by_location[m] } |->
        { l \in by_location[m] : gpio_module(l[1]) = g }]]

\* lines 459-497 (combine_mcu_lists = false): the loops visit each gpio of
\* each visited pin, with the MCUs of its first version
original_visits(seq) ==
  Flatten([i \in 1..Len(seq) |->
    LET gs == InSortedOrder(DOMAIN seq[i].gpios)
    IN  [k \in 1..Len(gs) |->
           [seq[i] EXCEPT
              !.gpios = [g \in {gs[k]} |-> seq[i].gpios[g]],
              !.mcus = grouped_mcus([gpios |-> [g \in {gs[k]} |-> seq[i].gpios[g]]])]]])

\* lines 466-485: the maps filled at each visit, MCU set -> the keys of the
\* visits with that MCU set
entries(key) ==
  [m \in { p.mcus : p \in DOMAIN key } |->
     { key[p] : p \in { q \in DOMAIN key : q.mcus = m } }]

\* The collections, from what the loops visited (seq), the map
\* io_traits_by_peripheral (iotp) and what the grouping loop gave (loop).
\* With combine_mcu_lists the messages are all written before the slice at
\* line 456; without it the slice at line 483 comes before the message of
\* its own visit.
collected(seq, P, iotp, loop, combine_mcu_lists) ==
  [devs |-> IF combine_mcu_lists THEN by_mcus(collect([p \in P |-> p.dev]))
            ELSE entries([p \in P |-> p.dev]),
   gpio_afs |-> IF combine_mcu_lists THEN by_mcus(collect([p \in P |-> p.af]))
                ELSE entries([p \in P |-> p.af]),
   gpios |-> gpios_by_module(IF combine_mcu_lists THEN by_mcus(collect([p \in P |-> p.loc]))
                             ELSE entries([p \in P |-> p.loc])),
   io_traits |-> IF combine_mcu_lists THEN by_mcus(collect([p \in P |-> << p.io_name, p.io >>]))
                 ELSE entries([p \in P |-> << p.io_name, p.io >>]),
   io_traits_by_peripheral |-> iotp,
   mct |-> [m \in { p.mcus : p \in P } |->
              { << p.loc[1], p.loc[2], p.af, p.io_name, p.dev >> :
                  p \in { q \in P : q.mcus = m } }],
   io_traits_grouped |-> loop.grouped,
   how |-> loop.how,
   msgs |-> Flatten([i \in 1..Len(seq) |->
              IF ~combine_mcu_lists /\ \E k \in 1..i : seq[k].loc[1] = << >>
              THEN << >> ELSE multiple_versions(seq[i])]),
   slice_panics |-> \E p \in P : p.loc[1] = << >>]

collected_traits(seq, P, iotp, combine_mcu_lists) ==
  collected(seq, P, iotp, group_loop(io_traits_extended(iotp), EmptyMap, 0), combine_mcu_lists)

collected_pins(seq, P, combine_mcu_lists) ==
  collected_traits(seq, P,
    io_traits_by_peripheral(
      IF combine_mcu_lists THEN by_mcus(collect([p \in P |-> << p.stem, p.io_name, p.io >>]))
      ELSE entries([p \in P |-> << p.stem, p.io_name, p.io >>])),
    combine_mcu_lists)

collected_visits(seq, combine_mcu_lists) ==
  collected_pins(seq, { seq[i] : i \in 1..Len(seq) }, combine_mcu_lists)

\* The collections of generate_pin_mappings, lines 367-532.
collections(t, stems, combine_mcu_lists) ==
  IF combine_mcu_lists
  THEN collected_visits(Flatten([i \in 1..Len(stems) |-> visited_devs(stems[i], t[stems[i]])]),
                        TRUE)
  ELSE collected_visits(
         original_visits(Flatten([i \in 1..Len(stems) |-> visited_devs(stems[i], t[stems[i]])])),
         FALSE)

\* features_of with the cfg line of the first MCU only.
features_of_first(mcus) ==
  LET ms == InSortedOrder(mcus)
  IN  [i \in 1..(IF Len(ms) = 0 THEN 0 ELSE 1) |-> <<" ", " ", " ", " ", "f", "e", "a", "t", "u", "r", "e", " ", "=", " ">> \o DebugStr(ms[i])]

\* lines 575-577 and the like: the cfg lines of a block, one for each MCU
features_of(mcus) ==
  LET ms == InSortedOrder(mcus)
  IN  [i \in 1..Len(ms) |-> <<" ", " ", " ", " ", "f", "e", "a", "t", "u", "r", "e", " ", "=", " ">> \o DebugStr(ms[i])]

\* lines 692-696: the line of an entry (p, n, af, ion, dev) of a pins! block
pin_item(e) ==
  <<" ", " ", " ", " ">> \o e[1] \o Pad(Dec(e[2]), 2) \o <<" ", "=", ">", " ", "{">> \o Pad(e[3], 4)
    \o <<":", " ">> \o e[4] \o <<"<">> \o e[5] \o <<">", "}">>

\* lines 565-736: the blocks of the text, in the order they are printed.  A
\* block is the macro it calls, its cfg lines and its items in their order;
\* the fixed text around them, and the line breaks put into long item lists,
\* are left out.
blocks(c) ==
  LET of(map, macro, Items(_)) ==
        LET ks == InSetOrder(DOMAIN map)
        IN  [i \in 1..Len(ks) |->
               [macro |-> macro, cfg |-> features_of(ks[i]), items |-> Items(map[ks[i]])]]
      names(set) == InSortedOrder(set)
      gpio_items(map) ==
        LET gs == InSortedOrder(DOMAIN map)
        IN  [i \in 1..Len(gs) |->
               [gpio |-> gs[i],
                pins |-> LET ls == InPinOrder(map[gs[i]])
                         IN  [k \in 1..Len(ls) |-> ls[k][1] \o Dec(ls[k][2])]]]
      trait_items(set) ==
        LET ts == InTraitOrder(set)
        IN  [i \in 1..Len(ts) |-> ts[i][1]]
      pin_items(set) ==
        LET es == InMctOrder(set)
        IN  [i \in 1..Len(es) |-> pin_item(es[i])]
      stem_items(map) ==
        LET sts == InSortedOrder(DOMAIN map)
        IN  [i \in 1..Len(sts) |-> [stem |-> sts[i], ios |-> InTraitOrder(map[sts[i]])]]
  IN  of(c.devs, "dev_uses", names)
        \o of(c.gpio_afs, "gpio_af_uses", names)
        \o of(c.gpios, "gpio_uses", gpio_items)
        \o of(c.io_traits, "io_traits", trait_items)
        \o of(c.mct, "pins", pin_items)
        \o of(c.io_traits_grouped, "mod pins", stem_items)

\* lines 565-772: what is printed for the collections c
pin_mappings_text(c) ==
  IF c.slice_panics
  THEN [result |-> Ok, lines |-> << >>, msgs |-> c.msgs, panic |-> TRUE]
  ELSE [result |-> Ok,
        lines |-> blocks(c),
        msgs |-> c.msgs \o [i \in 1..c.how |-> [t |-> "how"]],
        panic |-> FALSE]

\* lines 396-399: the error of iter is returned, with ?
pin_mappings_of(t, it, combine_mcu_lists) ==
  IF ~it.ok THEN [result |-> it, lines |-> << >>, msgs |-> << >>, panic |-> FALSE]
  ELSE pin_mappings_text(collections(t, it.v, combine_mcu_lists))

\* generate_pin_mappings: what it returns, what it prints, what it writes to
\* stderr, and whether the slice [1..] of an empty port name ends the process.
generate_pin_mappings(t, af_stem_selection, combine_mcu_lists) ==
  pin_mappings_of(t, AfTree_iter(t, af_stem_selection), combine_mcu_lists)

\* main, lines 158-161: what generate_pin_mappings gave (r) goes to stdout and
\* stderr, and the process ends
pin_mappings_end(r) ==
  /\ stdout' = stdout \o r.lines
  /\ stderr' = stderr \o r.msgs
  /\ result' = IF r.panic THEN result ELSE Some(r.result)
  /\ pc' = IF r.panic THEN "panic" ELSE "done"

\* main, lines 159-160: generate_pin_mappings on the tree build returned,
\* with combine_mcu_lists = true
main_generate_pin_mappings ==
  /\ pc = "generate"
  /\ generate = "pin_mappings"
  /\ pin_mappings_end(generate_pin_mappings(tree, af_stems, TRUE))
  /\ UNCHANGED << inputs, mcu_gpio_map, mcu_package_map, order, caller, tree, gpio_all,
                  gi, pi, si, cur, cur_pin, pin_nr, run, first, calls >>

\* ------------------------------------------------------------------------
\* The program, run twice on the same input
\* ------------------------------------------------------------------------

Next ==
  \/ main_load
  \/ main_generate_features
  \/ build_start
  \/ build_next_gpio
  \/ build_next_pin
  \/ update_af_tree_enter
  \/ update_af_tree_signal
  \/ build_gpio_end
  \/ build_return
  \/ main_display_af_tree
  \/ main_generate_pin_mappings
  \/ run_again

Spec == Init /\ [][Next]_vars

\* ------------------------------------------------------------------------
\* C2, C3, C4
\* ------------------------------------------------------------------------

\* build has returned an error value.
BuildErr == result.some /\ ~result.v.ok /\ result.v.kind = "unsupported"

\* main has returned after build returned Ok: iter was called once, on the
\* tree, with the selection af_stems.
IterCalled ==
  /\ pc = "done"
  /\ generate \in {"query", "pin_mappings"}
  /\ ~BuildErr

\* The stems of the selection that are not in the tree, in its order.
Absent == SelectSeq(af_stems.v, LAMBDA stem : stem \notin DOMAIN tree)

\* The names a message lists between its parentheses, separated by ','.
Unquote(w) ==
  LET a == IF Len(w) > 0 /\ w[1] = "'" THEN Tail(w) ELSE w
  IN  IF Len(a) > 0 /\ a[Len(a)] = "'" THEN SubSeq(a, 1, Len(a) - 1) ELSE a
Listed(msg) ==
  LET open == CHOOSE i \in 1..Len(msg) : msg[i] = "(" /\ \A k \in 1..(i - 1) : msg[k] # "("
      parts == split(SubSeq(msg, open + 1, Len(msg) - 1), ",")
  IN  [i \in 1..Len(parts) |-> Unquote(parts[i])]

\* C2: iter called with a selection that names a stem absent from the tree
\* returns an error whose message lists exactly the absent stems of the
\* selection, and no entry of the tree is yielded (nothing is printed); called
\* with a selection of present stems, or with none, it returns Ok.
C2_IterRefusesAbsentStems ==
  IterCalled =>
    IF af_stems.some /\ Len(Absent) > 0
    THEN /\ ~result.v.ok
         /\ result.v.kind = "invalid_stems"
         /\ Listed(result.v.msg) = Absent
         /\ stdout = << >>
    ELSE result.v = Ok

\* USART is in the tree, CAN and SPI are not, and the three were selected.
C2_Witness ==
  /\ IterCalled
  /\ af_stems = Some(<< <<"C", "A", "N">>, <<"U", "S", "A", "R", "T">>, <<"S", "P", "I">> >>)
  /\ <<"U", "S", "A", "R", "T">> \in DOMAIN tree
  /\ ~result.v.ok
  /\ Listed(result.v.msg) = << <<"C", "A", "N">>, <<"S", "P", "I">> >>

\* C3 as claimed: the only error value main gets from the aggregation engine is
\* the invalid selection of iter; build returns Ok for every family.
C3_OnlyIterFails ==
  (generate \in {"query", "pin_mappings"} /\ result.some /\ ~result.v.ok)
    => result.v.kind = "invalid_stems"

\* C3 as amended: build returns an error value exactly for the family STM32F1,
\* before it reads anything; for every other family it returns Ok when it
\* returns, and the only other error value is the invalid selection of iter.
C3_BuildFailsOnlyForF1 ==
  generate \in {"query", "pin_mappings"} =>
    /\ (result.some /\ ~result.v.ok) => result.v.kind \in {"unsupported", "invalid_stems"}
    /\ BuildErr => (mcu_family = "STM32F1" /\ tree = EmptyMap /\ stderr = << >>)
    /\ (mcu_family = "STM32F1" /\ pc = "done") => BuildErr
    /\ mcu_family = "STM32F1" => pc \in {"main", "build", "done"}
    /\ pc = "generate" => mcu_family # "STM32F1"

\* A query for the family STM32F1 has ended with the error build returned.
C3_Witness ==
  /\ generate = "query"
  /\ mcu_family = "STM32F1"
  /\ pc = "done"
  /\ BuildErr

\* C4: processing a pin record never panics, whatever its GPIO_Pin value.
C4_NoPanic == pc # "panic"

\* ------------------------------------------------------------------------
\* C9
\* ------------------------------------------------------------------------

\* The words of a line, and the location a pin name stands for.
Words(line) == SelectSeq(split(line, " "), LAMBDA w : w # << >>)
Location(name) ==
  LET k == CHOOSE i \in 1..(Len(name) + 1) :
             /\ (i = Len(name) + 1 \/ name[i] \in Digit)
             /\ \A j \in 1..(i - 1) : name[j] \notin Digit
  IN  << SubSeq(name, 1, k - 1), NumVal(name, k, Len(name) + 1 - k) >>

\* Ports ascending and, within a port, pin numbers ascending by value.
Before(a, b) == StringLess(a[1], b[1]) \/ (a[1] = b[1] /\ a[2] < b[2])
Ascending(locs) == \A i, j \in 1..Len(locs) : i < j => Before(locs[i], locs[j])
NotDescending(locs) == \A i, j \in 1..Len(locs) : i < j => ~Before(locs[j], locs[i])

\* The pin names at the end of a line of the query output.
IsIoLine(line) == \E i \in 1..Len(Words(line)) : Words(line)[i] = <<"=", "[">>
LineLocations(line) ==
  LET ws == Words(line)
      k == CHOOSE i \in 1..Len(ws) : ws[i] = <<"=", "[">>
      names == SelectSeq(SubSeq(ws, k + 1, Len(ws)), LAMBDA w : w # <<"|">>)
  IN  [i \in 1..Len(names) |-> Location(names[i])]

PinMaps(t) ==
  UNION { UNION { { t[s][d][ai].pins : ai \in DOMAIN t[s][d] } : d \in DOMAIN t[s] } : s \in DOMAIN t }

\* C9: pin locations are iterated in numeric-aware order at every node of the
\* tree and within every rendered group: ports ascending and, within a port,
\* pin numbers ascending by value (PA2, PA10, PB1).
C9_NumericPinOrder ==
  /\ \A pins \in PinMaps(tree) : Ascending(InPinOrder(DOMAIN pins))
  /\ generate = "query" =>
       \A i \in 1..Len(stdout) : IsIoLine(stdout[i]) => Ascending(LineLocations(stdout[i]))
  /\ generate = "pin_mappings" =>
       \A i \in 1..Len(stdout) :
         /\ stdout[i].macro = "gpio_uses" =>
              \A k \in 1..Len(stdout[i].items) :
                Ascending([n \in 1..Len(stdout[i].items[k].pins) |->
                             Location(stdout[i].items[k].pins[n])])
         /\ stdout[i].macro = "pins" =>
              NotDescending([k \in 1..Len(stdout[i].items) |->
                               Location(Words(stdout[i].items[k])[1])])

\* The pins of the file are PA10, PB1, PA2; the line of EVENTOUT lists them as
\* PA2, PA10, PB1.
C9_Witness ==
  /\ generate = "query"
  /\ pc = "done"
  /\ \E i \in 1..Len(stdout) :
       /\ IsIoLine(stdout[i])
       /\ LineLocations(stdout[i]) = << << <<"P", "A">>, 2 >>, << <<"P", "A">>, 10 >>, << <<"P", "B">>, 1 >> >>

\* ------------------------------------------------------------------------
\* C10
\* ------------------------------------------------------------------------

\* C10: two runs on the same input print the same text, whatever order the
\* map of GPIO versions yields its entries in.
C10_SameOutputTwice ==
  (run = 2 /\ pc = "done" /\ first.v.pc = "done") => stdout = first.v.stdout

\* ------------------------------------------------------------------------
\* display_af_tree and generate_pin_mappings called with a tree, a selection
\* and a flag of the caller's choice
\* ------------------------------------------------------------------------

\* What the trees of the direct calls are made of: signals of pins, each
\* under a gpio, a version of it, and the MCUs of that version.
PassLeaves ==
  { [sig |-> Sig(<<"U", "S", "A", "R", "T", "2", "_", "T", "X">>, <<"G", "P", "I", "O", "_", "A", "F", "7", "_", "U", "S", "A", "R", "T", "2">>), port_name |-> <<"P", "A">>, pin_nr |-> 2,
     name |-> <<"P", "A", "2">>, gpio_mcu |-> x[1], gpio_version |-> x[2], mcus |-> x[3]] :
      x \in { << <<"S", "T", "M", "3", "2", "F", "3", "0", "3">>, <<"g", "p", "i", "o", "_", "v", "1", "_", "0">>, { <<"s", "t", "m", "3", "2", "f", "3", "0", "3">> } >>,
              << <<"S", "T", "M", "3", "2", "F", "3", "0", "3">>, <<"g", "p", "i", "o", "_", "v", "2", "_", "0">>, { <<"s", "t", "m", "3", "2", "f", "3", "0", "2">> } >>,
              << <<"S", "T", "M", "3", "2", "F", "3", "0", "3">>, <<"g", "p", "i", "o", "_", "v", "1", "0", "_", "0">>, { <<"s", "t", "m", "3", "2", "f", "3", "0", "1">> } >>,
              << <<"S", "T", "M", "3", "2", "F", "3", "7", "3">>, <<"g", "p", "i", "o", "_", "v", "1", "_", "0">>, { <<"s", "t", "m", "3", "2", "f", "3", "7", "3">> } >> } }
  \cup
  { [sig |-> Sig(<<"I", "2", "C", "1", "_", "S", "C", "L">>, <<"G", "P", "I", "O", "_", "A", "F", "4", "_", "I", "2", "C", "1">>), port_name |-> <<"P", "A">>, pin_nr |-> 10,
     name |-> <<"P", "A", "1", "0">>, gpio_mcu |-> x[1], gpio_version |-> x[2], mcus |-> x[3]] :
      x \in { << <<"S", "T", "M", "3", "2", "F", "3", "0", "3">>, <<"g", "p", "i", "o", "_", "v", "1", "_", "0">>, { <<"s", "t", "m", "3", "2", "f", "3", "0", "3">> } >>,
              << <<"S", "T", "M", "3", "2", "F", "3", "0", "3">>, <<"g", "p", "i", "o", "_", "v", "2", "_", "0">>, { <<"s", "t", "m", "3", "2", "f", "3", "0", "2">> } >> } }

\* The tree update_af_tree makes of a set of them.
RECURSIVE PassTree(_)
PassTree(S) ==
  IF S = {} THEN EmptyMap
  ELSE LET l == CHOOSE x \in S : TRUE
       IN  insert_signal(PassTree(S \ {l}), parse_signal(l.sig), l.port_name, l.pin_nr, l.name,
                         l.gpio_mcu, l.gpio_version, l.mcus).tree

InitPasses ==
  /\ InitMainIdle
  /\ pc = "idle"
  /\ caller = "direct"
  /\ tree \in { PassTree(S) : S \in (SUBSET PassLeaves) \ {{}} }
  /\ si = 0
  /\ cur = NoCur
  /\ cur_pin = NoPin
  /\ pin_nr = 0
  /\ stderr = << >>
  /\ calls = 0

\* display_af_tree(&af_tree, &af_stems, verbose)
call_display_af_tree ==
  /\ pc = "idle"
  /\ \E sel \in Selections, verbose \in BOOLEAN :
       /\ generate' = "query"
       /\ af_stems' = sel
       /\ caller' = IF verbose THEN "verbose" ELSE "direct"
       /\ stdout' = display_af_tree(tree, sel, verbose).lines
       /\ stderr' = display_af_tree(tree, sel, verbose).msgs
       /\ result' = Some(display_af_tree(tree, sel, verbose).result)
  /\ pc' = "done"
  /\ UNCHANGED << mcu_family, catalog, db, mcu_gpio_map, mcu_package_map, order, tree, gpio_all,
                  gi, pi, si, cur, cur_pin, pin_nr, run, first, calls >>

\* generate_pin_mappings(&af_tree, &af_stems, combine_mcu_lists)
call_generate_pin_mappings ==
  /\ pc = "idle"
  /\ \E sel \in Selections, combine_mcu_lists \in BOOLEAN :
       /\ generate' = "pin_mappings"
       /\ af_stems' = sel
       /\ caller' = IF combine_mcu_lists THEN "combine_mcu_lists" ELSE "direct"
       /\ pin_mappings_end(generate_pin_mappings(tree, sel, combine_mcu_lists))
  /\ UNCHANGED << mcu_family, catalog, db, mcu_gpio_map, mcu_package_map, order, tree, gpio_all,
                  gi, pi, si, cur, cur_pin, pin_nr, run, first, calls >>

NextPasses == call_display_af_tree \/ call_generate_pin_mappings

SpecPasses == InitPasses /\ [][NextPasses]_vars

\* ------------------------------------------------------------------------
\* gpio_version_to_feature and generate_features called with inputs of the
\* caller's choice
\* ------------------------------------------------------------------------

\* The version strings: a name, or none, and what follows it.
FeatureVersions ==
  { x \o s :
      x \in { << >>, <<"S", "T", "M", "3", "2", "L", "1", "5", "2", "x", "8">>, <<"S", "T", "M", "3", "2", "F", "3", "3", "3">>, <<"S", "T", "M", "3", "2", "_", "S", "T", "M", "3", "2", "F", "3", "3", "3">>, <<"_">>, <<"S", "T", "M", "3", "2", "F", "3", "-", "B">>,
              <<"s", "t", "m", "3", "2", " ", "f", "3">>, <<"S", "T", "M", "3", "2", "F", "3", "3", "3", "_", "g", "p", "i", "o", "_", "v", "1", "_", "0">> },
      s \in { <<"_", "g", "p", "i", "o", "_", "v", "1", "_", "0">>, <<"_", "g", "p", "i", "o", "_", "v", "1", "_", "1">>, <<"_", "q", "q", "i", "o", "_", "v", "1", "_", "0">>, <<"_", "g", "p", "i", "o", "_", "v", "1", "_", "0", "_">>, <<"_", "g", "p", "i", "o", "_", "v", "1", "_", "0", "0">>,
              <<"g", "p", "i", "o", "_", "v", "1", "_", "0">>, <<"_", "G", "P", "I", "O", "_", "V", "1", "_", "0">>, <<"_", "g", "p", "i", "o", "_", "v", "1">>, <<"_", "g", "p", "i", "o", "_", "v", "2", "_", "0">>, << >> } }

\* The MCUs of a family whose names and versions hold numbers of one and of
\* two digits.
FeatureMcus ==
  << Mcu(<<"S", "T", "M", "3", "2", "L", "1", "0", "C", "6", "T", "x">>, <<"L", "Q", "F", "P", "4", "8">>, <<"S", "T", "M", "3", "2", "L", "1", "0", "_", "g", "p", "i", "o", "_", "v", "1", "_", "0">>),
     Mcu(<<"S", "T", "M", "3", "2", "L", "2", "C", "6", "T", "x">>, <<"L", "Q", "F", "P", "4", "8">>, <<"S", "T", "M", "3", "2", "L", "2", "_", "g", "p", "i", "o", "_", "v", "1", "_", "0">>),
     Mcu(<<"S", "T", "M", "3", "2", "L", "2", "K", "6", "U", "x">>, <<"U", "F", "Q", "F", "P", "N", "3", "2">>, <<"S", "T", "M", "3", "2", "L", "2", "_", "g", "p", "i", "o", "_", "v", "1", "_", "0">>),
     Mcu(<<"S", "T", "M", "3", "2", "L", "0", "2", "1", "D", "4", "P", "x">>, <<"T", "S", "S", "O", "P", "1", "4">>, <<"S", "T", "M", "3", "2", "L", "0", "2", "1", "_", "g", "p", "i", "o", "_", "v", "1", "_", "0">>),
     Mcu(<<"S", "T", "M", "3", "2", "L", "9", "K", "6", "U", "x">>, <<"U", "F", "Q", "F", "P", "N", "3", "2">>, <<"S", "T", "M", "3", "2", "L", "9", "_", "g", "p", "i", "o", "_", "v", "1", "_", "1">>) >>

call_gpio_version_to_feature ==
  /\ pc = "idle"
  /\ \E version \in FeatureVersions :
       /\ cur' = [NoCur EXCEPT !.gpio = version]
       /\ result' = Some(gpio_version_to_feature(version))
  /\ pc' = "done"
  /\ UNCHANGED << inputs, mcu_gpio_map, mcu_package_map, order, caller, tree, gpio_all, gi, pi,
                  si, cur_pin, pin_nr, stderr, stdout, run, first, calls >>

\* main, lines 138-157, for a family and the MCUs it lists
call_generate_features ==
  /\ pc = "idle"
  /\ \E family \in {"STM32F3", "STM32L0"}, cat \in Catalogs(FeatureMcus) :
       \E keys \in Orders(DOMAIN gpio_map_of(cat)) :
         /\ mcu_family' = family
         /\ catalog' = cat
         /\ mcu_gpio_map' = gpio_map_of(cat)
         /\ mcu_package_map' = package_map_of(cat, family)
         /\ order' = keys
         /\ stdout' = generate_features(gpio_map_of(cat), package_map_of(cat, family),
                                        family, keys).lines
         /\ result' = Some(generate_features(gpio_map_of(cat), package_map_of(cat, family),
                                             family, keys).result)
  /\ generate' = "features"
  /\ pc' = "done"
  /\ UNCHANGED << db, af_stems, caller, tree, gpio_all, gi, pi, si, cur, cur_pin, pin_nr,
                  stderr, run, first, calls >>

NextFeatures == call_gpio_version_to_feature \/ call_generate_features

SpecFeatures == InitInsert /\ [][NextFeatures]_vars

\* ------------------------------------------------------------------------
\* The loop of generate_pin_mappings that groups the MCUs, turn by turn
\* ------------------------------------------------------------------------

\* lines 499-516: generate_pin_mappings has made its collections and iot_ex
\* from them, and enters the loop; cur holds the locals of the loop.
call_group_loop ==
  /\ pc = "idle"
  /\ \E sel \in Selections, combine_mcu_lists \in BOOLEAN :
       /\ AfTree_iter(tree, sel).ok
       /\ af_stems' = sel
       /\ caller' = IF combine_mcu_lists THEN "combine_mcu_lists" ELSE "direct"
       /\ cur' = [iot_ex |-> io_traits_extended(
                               collections(tree, AfTree_iter(tree, sel).v,
                                           combine_mcu_lists).io_traits_by_peripheral),
                  io_traits_grouped |-> EmptyMap,
                  how |-> 0]
  /\ generate' = "pin_mappings"
  /\ pc' = "group_loop"
  /\ UNCHANGED << mcu_family, catalog, db, mcu_gpio_map, mcu_package_map, order, tree, gpio_all,
                  gi, pi, si, cur_pin, pin_nr, stderr, stdout, result, run, first, calls >>

\* lines 517-530: one turn of the loop
group_loop_turn ==
  /\ pc = "group_loop"
  /\ DOMAIN cur.iot_ex # {}
  /\ \E turn \in { group_iteration(cur.iot_ex, cur.io_traits_grouped, cur.how) } :
       /\ cur' = turn
       /\ stderr' = IF turn.how > cur.how THEN Append(stderr, [t |-> "how"]) ELSE stderr
  /\ UNCHANGED << inputs, mcu_gpio_map, mcu_package_map, order, pc, caller, tree, gpio_all,
                  gi, pi, si, cur_pin, pin_nr, stdout, result, run, first, calls >>

\* line 517: iot_ex is empty, the loop is left
group_loop_end ==
  /\ pc = "group_loop"
  /\ DOMAIN cur.iot_ex = {}
  /\ pc' = "done"
  /\ UNCHANGED << inputs, mcu_gpio_map, mcu_package_map, order, caller, tree, gpio_all,
                  gi, pi, si, cur, cur_pin, pin_nr, stderr, stdout, result, run, first, calls >>

NextGroupLoop == call_group_loop \/ group_loop_turn \/ group_loop_end

\* Once in the loop the function runs on: a turn that can be taken is taken,
\* and the loop is left when its condition fails.
SpecGroupLoop ==
  /\ InitPasses
  /\ [][NextGroupLoop]_vars
  /\ WF_vars(group_loop_turn)
  /\ WF_vars(group_loop_end)

\* ------------------------------------------------------------------------
\* C11 - C13: the grouping views of generate_pin_mappings
\* ------------------------------------------------------------------------

\* generate_pin_mappings has returned Ok: its collections were made from the
\* tree build returned and the selection af_stems.
Grouped ==
  /\ pc = "done"
  /\ generate = "pin_mappings"
  /\ result.some
  /\ result.v.ok

\* The stems iter yields, as a set.
SelectedStems == IF af_stems.some THEN { af_stems.v[i] : i \in 1..Len(af_stems.v) } ELSE DOMAIN tree

\* The pins of the selected part of the tree, each with its key path and the
\* MCUs grouped for it.
SelectedPins ==
  UNION { UNION { UNION { { [stem |-> s, dev |-> d, af |-> k[1], io |-> k[2],
                             io_name |-> tree[s][d][k].io_name, loc |-> l,
                             mcus |-> grouped_mcus(tree[s][d][k].pins[l])] :
                              l \in DOMAIN tree[s][d][k].pins } :
                          k \in DOMAIN tree[s][d] } :
                  d \in DOMAIN tree[s] } :
          s \in SelectedStems }

\* The four views: the value of a pin in each of them.
Views == { "devs", "gpio_afs", "gpios", "io_traits" }
ViewValue(view, p) ==
  CASE view = "devs" -> p.dev
    [] view = "gpio_afs" -> p.af
    [] view = "gpios" -> p.loc
    [] view = "io_traits" -> << p.io_name, p.io >>

\* The MCUs collected for a value: those of all selected pins with that value.
CollectedMcus(view, v) == UNION { p.mcus : p \in { q \in SelectedPins : ViewValue(view, q) = v } }

\* The groups of a view in the collections c: MCU set -> its values.
ViewGroups(c, view) ==
  CASE view = "devs" -> c.devs
    [] view = "gpio_afs" -> c.gpio_afs
    [] view = "gpios" -> [m \in DOMAIN c.gpios |-> UNION { c.gpios[m][g] : g \in DOMAIN c.gpios[m] }]
    [] view = "io_traits" -> c.io_traits

\* groups is a partition of values by the relation "has the same MCU set"
PartitionsBySet(groups, view, values) ==
  /\ UNION { groups[m] : m \in DOMAIN groups } = values
  /\ \A v \in values : Cardinality({ m \in DOMAIN groups : v \in groups[m] }) = 1
  /\ \A v, w \in values :
       (\E m \in DOMAIN groups : v \in groups[m] /\ w \in groups[m])
         <=> CollectedMcus(view, v) = CollectedMcus(view, w)

\* C11: in each of the four grouping views (devices, AF codes, pin locations,
\* (io name, io) pairs) every value of the selected part of the tree is in
\* exactly one group, and two values are in the same group exactly when their
\* collected MCU sets are identical.
C11_GroupsAreClassesOfEqualSets ==
  Grouped =>
    \A view \in Views :
      PartitionsBySet(ViewGroups(collections(tree, AfTree_iter(tree, af_stems).v, TRUE), view), view,
                      { ViewValue(view, p) : p \in SelectedPins })

\* The collections were made for a tree with two devices whose MCU sets differ,
\* one a strict subset of the other, and two devices with the same set.
C11_Witness ==
  /\ Grouped
  /\ \E p, q \in SelectedPins :
       /\ CollectedMcus("devs", p.dev) # CollectedMcus("devs", q.dev)
       /\ CollectedMcus("devs", p.dev) \subseteq CollectedMcus("devs", q.dev)
  /\ \E p, q \in SelectedPins :
       /\ p.dev # q.dev
       /\ CollectedMcus("devs", p.dev) = CollectedMcus("devs", q.dev)

\* The input of a second grouping made from groups: each grouped value with
\* the MCUs of the groups it is in.
Regroup(groups) ==
  [v \in UNION { groups[m] : m \in DOMAIN groups } |->
     UNION { m \in DOMAIN groups : v \in groups[m] }]

\* The keys of the five ..._collect maps of lines 420-434.
CollectKeys == Views \cup { "io_traits_by_peripheral" }
CollectKey(kind, p) ==
  IF kind = "io_traits_by_peripheral" THEN << p.stem, p.io_name, p.io >> ELSE ViewValue(kind, p)

\* The groups the grouping step of lines 437-458 makes for one kind of key.
GroupsOf(kind) == by_mcus(collect([p \in SelectedPins |-> CollectKey(kind, p)]))

\* C12: the grouping step applied to its own result, each grouped value taken
\* with the MCU set of its group, yields the same groups; and the groups of
\* the four views are those of the collections.
C12_GroupingIsIdempotent ==
  Grouped =>
    /\ \A kind \in CollectKeys : by_mcus(Regroup(GroupsOf(kind))) = GroupsOf(kind)
    /\ \A view \in Views :
         GroupsOf(view) = ViewGroups(collections(tree, AfTree_iter(tree, af_stems).v, TRUE), view)

\* A grouping that made two groups of devices or more, one of them with two
\* devices or more, was grouped again.
C12_Witness ==
  /\ Grouped
  /\ Cardinality(DOMAIN GroupsOf("devs")) >= 2
  /\ \E m \in DOMAIN GroupsOf("devs") : Cardinality(GroupsOf("devs")[m]) >= 2
  /\ by_mcus(Regroup(GroupsOf("devs"))) = GroupsOf("devs")


\* The revision groups under the selected stems: the key path of a pin and a
\* gpio of it, with the versions it holds.
RevisionGroups ==
  UNION { UNION { UNION { UNION {
    { [stem |-> s, dev |-> d, afio |-> ai, loc |-> l, gpio_mcu |-> g,
       versions |-> tree[s][d][ai].pins[l].gpios[g]] :
        g \in DOMAIN tree[s][d][ai].pins[l].gpios } :
    l \in DOMAIN tree[s][d][ai].pins } :
    ai \in DOMAIN tree[s][d] } :
    d \in DOMAIN tree[s] } :
    s \in SelectedStems \cap DOMAIN tree }

\* The first revision of a revision group in the order of its keys, and the
\* MCUs of that revision.
FirstRevision(versions) ==
  CHOOSE v \in DOMAIN versions : \A w \in DOMAIN versions \ {v} : SortedLess(v, w)
FirstMcus(versions) == versions[FirstRevision(versions)]

\* The printed lines that start with a prefix.
Printed(prefix) ==
  { stdout[i] : i \in { k \in 1..Len(stdout) :
                          /\ Len(stdout[k]) >= Len(prefix)
                          /\ SubSeq(stdout[k], 1, Len(prefix)) = prefix } }

\* A pass over the tree has returned Ok.
Passed(what, flag) ==
  pc = "done" /\ generate = what /\ caller = flag /\ result.some /\ result.v.ok

\* The warnings of a pass: one for each revision group with more than one
\* revision, and each names the revisions of such a group.
WarnedOncePerGroup ==
  LET warnings == SelectSeq(stderr, LAMBDA m : m.t = "multiple_versions")
      many == { r \in RevisionGroups : Cardinality(DOMAIN r.versions) > 1 }
  IN  /\ Len(warnings) = Cardinality(many)
      /\ \A i \in 1..Len(warnings) :
           \E r \in many : { warnings[i].versions[k] : k \in 1..Len(warnings[i].versions) }
                             = DOMAIN r.versions

\* The MCU sets of the pins! blocks that were printed.
PinsBlocks == { stdout[i].cfg : i \in { k \in 1..Len(stdout) : stdout[k].macro = "pins" } }

\* C13: in display_af_tree with verbose and in generate_pin_mappings with and
\* without combine_mcu_lists, of a revision group exactly the MCUs of its
\* first revision in key order are used, and a warning is written for each
\* visit of a revision group with more than one revision.
C13_FirstRevisionOnly ==
  /\ Passed("query", "verbose") =>
       /\ WarnedOncePerGroup
       /\ Printed(<<" ", " ", " ", " ", " ", " ", " ", " ", " ", " ">>)
            = { <<" ", " ", " ", " ", " ", " ", " ", " ", " ", " ">> \o m : m \in UNION { FirstMcus(r.versions) : r \in RevisionGroups } }
       /\ Printed(<<" ", " ", " ", " ", " ", " ", " ", " ", "g", "p", "i", "o", "-", "v", "e", "r", "s", "i", "o", "n", ":", " ">>)
            = { <<" ", " ", " ", " ", " ", " ", " ", " ", "g", "p", "i", "o", "-", "v", "e", "r", "s", "i", "o", "n", ":", " ">> \o FirstRevision(r.versions) : r \in RevisionGroups }
  /\ Passed("pin_mappings", "combine_mcu_lists") =>
       /\ WarnedOncePerGroup
       /\ PinsBlocks
            = { features_of(UNION { FirstMcus(r.versions) :
                                      r \in { x \in RevisionGroups :
                                                /\ x.stem = p.stem /\ x.dev = p.dev
                                                /\ x.afio = p.afio /\ x.loc = p.loc } }) :
                  p \in RevisionGroups }
  /\ Passed("pin_mappings", "direct") =>
       /\ WarnedOncePerGroup
       /\ PinsBlocks = { features_of(FirstMcus(r.versions)) : r \in RevisionGroups }

\* generate_pin_mappings without combine_mcu_lists went over a pin with two
\* gpios, one of them with the revisions v2 and v10, and wrote a warning.
C13_Witness ==
  /\ Passed("pin_mappings", "direct")
  /\ \E r \in RevisionGroups :
       /\ { <<"g", "p", "i", "o", "_", "v", "2", "_", "0">>, <<"g", "p", "i", "o", "_", "v", "1", "0", "_", "0">> } \subseteq DOMAIN r.versions
       /\ <<"g", "p", "i", "o", "_", "v", "1", "_", "0">> \notin DOMAIN r.versions
       /\ \E q \in RevisionGroups : q.loc = r.loc /\ q.afio = r.afio /\ q.gpio_mcu # r.gpio_mcu
  /\ \E i \in 1..Len(stderr) : stderr[i].t = "multiple_versions"


\* ------------------------------------------------------------------------
\* C14, C19, C20: AfTree::build
\* ------------------------------------------------------------------------

\* build has returned Ok(af) and main has not gone on yet.
Built == pc = "generate"

\* The pairs of the input map whose file was loaded.
Loaded == DOMAIN mcu_gpio_map \cap DOMAIN db

BadGpio(gpio) == ~captures(GPIO_REGEX, gpio).some
BadNames(gpio) == SelectSeq(mcu_gpio_map[gpio], LAMBDA mcu : ~captures(MCUS_REGEX, mcu).some)
GoodNames(gpio) == SelectSeq(mcu_gpio_map[gpio], LAMBDA mcu : captures(MCUS_REGEX, mcu).some)

\* The key (revision group, revision) an identifier parses to.
KeyOf(gpio) ==
  << CapStr(gpio, captures(GPIO_REGEX, gpio).v, "gpio"),
     CapStr(gpio, captures(GPIO_REGEX, gpio).v, "version") >>

\* The keys of the leaves of the tree, and those of its revision map.
LeafKeys == { << p[5], p[6] >> : p \in TreePaths(tree) }
MapKeys == UNION { { << g, v >> : v \in DOMAIN gpio_all[g].versions } : g \in DOMAIN gpio_all }

Reported(t, s) == \E i \in 1..Len(stderr) : stderr[i].t = t /\ stderr[i].s = s

\* A file has a pin that update_af_tree inserts.
HasInsertedPin(file) ==
  \E i \in 1..Len(file) :
    /\ get_pin_nr(file[i]).nr.some
    /\ file[i].pin_signal.some
    /\ \E k \in 1..Len(file[i].pin_signal.v) : parse_signal(file[i].pin_signal.v[k]).ok

\* C14 as stated: a loaded pair whose identifier does not parse, or with an
\* MCU name that does not parse, is reported and leaves nothing in the tree
\* and nothing in its revision map.
C14_BadPairSkipped ==
  Built =>
    /\ LeafKeys \cup MapKeys \subseteq { KeyOf(g) : g \in { x \in Loaded : ~BadGpio(x) } }
    /\ \A gpio \in Loaded :
         /\ BadGpio(gpio) => Reported("gpio", gpio) /\ ~Reported("gpio_is", gpio)
         /\ (~BadGpio(gpio) /\ Len(BadNames(gpio)) > 0) =>
              /\ \A i \in 1..Len(BadNames(gpio)) : Reported("mcu", BadNames(gpio)[i])
              /\ KeyOf(gpio) \notin LeafKeys \cup MapKeys

\* C14, amended: a loaded pair whose identifier does not parse is reported
\* and leaves nothing in the tree and nothing in its revision map; an MCU
\* name that does not parse is reported and only that name is left out: the
\* pins of its pair are inserted with the MCU set of the other names, and the
\* revision map gets the pair's entry with that set.
C14_BadGpioSkippedBadNameLeftOut ==
  Built =>
    /\ LeafKeys \cup MapKeys \subseteq { KeyOf(g) : g \in { x \in Loaded : ~BadGpio(x) } }
    /\ \A gpio \in Loaded :
         /\ BadGpio(gpio) => Reported("gpio", gpio) /\ ~Reported("gpio_is", gpio)
         /\ ~BadGpio(gpio) =>
              /\ \A i \in 1..Len(BadNames(gpio)) : Reported("mcu", BadNames(gpio)[i])
              /\ KeyOf(gpio) \in MapKeys
              /\ gpio_all[KeyOf(gpio)[1]].versions[KeyOf(gpio)[2]]
                   = mcus_simplified(GoodNames(gpio)).set
              /\ KeyOf(gpio) \in LeafKeys <=> HasInsertedPin(db[gpio])
              /\ \A p \in TreePaths(tree) :
                   << p[5], p[6] >> = KeyOf(gpio) =>
                     Leaf(tree, p[1], p[2], p[3], p[4], p[5], p[6])
                       = mcus_simplified(GoodNames(gpio)).set

\* build has returned for a catalog of two pairs: one with an identifier that
\* does not parse, one with a name that does not parse and pins in the tree.
C14_Witness ==
  /\ Built
  /\ \E gpio \in Loaded : BadGpio(gpio)
  /\ \E gpio \in Loaded :
       /\ ~BadGpio(gpio)
       /\ Len(BadNames(gpio)) > 0
       /\ KeyOf(gpio) \in LeafKeys


\* ------------------------------------------------------------------------
\* C15 - C17: the feature lines
\* ------------------------------------------------------------------------

\* gpio_version_to_feature has returned for the version in cur.gpio.
FeatureReturned == pc = "done" /\ generate = "none" /\ result.some /\ cur.gpio \in FeatureVersions

\* A version is a name without underscore followed by _gpio_v1_0.
VersionSuffix == <<"_", "g", "p", "i", "o", "_", "v", "1", "_", "0">>
HasVersionForm(v) ==
  /\ Len(v) >= Len(VersionSuffix)
  /\ SubSeq(v, Len(v) - Len(VersionSuffix) + 1, Len(v)) = VersionSuffix
  /\ \A i \in 1..(Len(v) - Len(VersionSuffix)) : v[i] # "_"

\* C15: gpio_version_to_feature(v) is Ok("io-" + X) exactly when v is X
\* followed by _gpio_v1_0 with no underscore in X, and an error for every
\* other string.
C15_FeatureOfVersion ==
  FeatureReturned =>
    /\ result.v.ok <=> HasVersionForm(cur.gpio)
    /\ result.v.ok =>
         result.v.v = <<"i", "o", "-">> \o SubSeq(cur.gpio, 1, Len(cur.gpio) - Len(VersionSuffix))

\* gpio_version_to_feature has returned the error for a name with an
\* underscore before _gpio_v1_0.
C15_Witness ==
  /\ FeatureReturned
  /\ cur.gpio = <<"S", "T", "M", "3", "2", "_", "S", "T", "M", "3", "2", "F", "3", "3", "3", "_", "g", "p", "i", "o", "_", "v", "1", "_", "0">>
  /\ ~result.v.ok


\* generate_features has returned Ok.
FeaturesPrinted == pc = "done" /\ generate = "features" /\ result.some /\ result.v.ok

\* The places of the printed lines that start with a prefix.
LinesWith(prefix) ==
  { i \in 1..Len(stdout) :
      /\ Len(stdout[i]) >= Len(prefix)
      /\ SubSeq(stdout[i], 1, Len(prefix)) = prefix }

\* The io flag of a GPIO revision: its name up to _gpio_v1_0, after io-.
IoFlag(gpio) == <<"i", "o", "-">> \o SubSeq(gpio, 1, Len(gpio) - Len(VersionSuffix))

\* C16: generate_features prints exactly one io line for each GPIO revision
\* and exactly one alias line for each MCU, and the dependencies of an alias
\* line hold the io flag of the revision of its MCU.
C16_OneLinePerRevisionAndMcu ==
  FeaturesPrinted =>
    /\ Cardinality(LinesWith(<<"i", "o", "-">>)) = Cardinality(DOMAIN mcu_gpio_map)
    /\ \A gpio \in DOMAIN mcu_gpio_map :
         Cardinality({ i \in LinesWith(<<"i", "o", "-">>) : stdout[i] = IoFlag(gpio) \o <<" ", "=", " ", "[", "]">> }) = 1
    /\ Cardinality(LinesWith(<<"m", "c", "u", "-">>)) = Len(catalog)
    /\ \A k \in 1..Len(catalog) :
         /\ Cardinality(LinesWith(<<"m", "c", "u", "-">> \o catalog[k].ref_name \o <<" ", "=", " ", "[">>)) = 1
         /\ LinesWith(<<"m", "c", "u", "-">> \o catalog[k].ref_name \o <<" ", "=", " ", "[">>)
              = LinesWith(<<"m", "c", "u", "-">> \o catalog[k].ref_name \o <<" ", "=", " ", "[">>
                            \o DebugStr(IoFlag(catalog[k].gpio_version)))

\* Features were printed for two MCUs of one GPIO revision.
C16_Witness ==
  /\ FeaturesPrinted
  /\ Len(catalog) = 2
  /\ Cardinality(DOMAIN mcu_gpio_map) = 1


\* The printed lines with a prefix, in the order they were printed.
LinesInOrder(prefix) ==
  [k \in 1..Cardinality(LinesWith(prefix)) |-> stdout[InNumberOrder(LinesWith(prefix))[k]]]

\* C17: the io lines and the alias lines are each printed in alphanumeric
\* order, the order in which an embedded number 2 comes before 10.
C17_FeatureLinesInNumericOrder ==
  FeaturesPrinted =>
    \A prefix \in { <<"i", "o", "-">>, <<"m", "c", "u", "-">> } :
      \A i, k \in 1..Len(LinesInOrder(prefix)) :
        i < k => ~SortedLess(LinesInOrder(prefix)[k], LinesInOrder(prefix)[i])


\* ------------------------------------------------------------------------
\* C18: one pin shared by two MCUs
\* ------------------------------------------------------------------------

\* The family has one GPIO revision with two MCUs; the revision and the
\* names of the MCUs parse, and its file holds one pin with one signal, which
\* update_af_tree inserts.
SharedPin ==
  /\ Cardinality(DOMAIN mcu_gpio_map) = 1
  /\ \A g \in DOMAIN mcu_gpio_map :
       /\ Len(mcu_gpio_map[g]) = 2
       /\ mcu_gpio_map[g][1] # mcu_gpio_map[g][2]
       /\ g \in DOMAIN db
       /\ ~BadGpio(g)
       /\ Len(BadNames(g)) = 0
       /\ Len(db[g]) = 1
       /\ db[g][1].pin_signal.some
       /\ Len(db[g][1].pin_signal.v) = 1
       /\ HasInsertedPin(db[g])

\* The cfg flag of an MCU: its name up to the letter after the digits, in
\* lower case.
McuFlag(mcu) == to_lowercase(CapStr(mcu, captures(MCUS_REGEX, mcu).v, "mcu"))

\* The pins! blocks that were printed.
PinsPrinted == SelectSeq(stdout, LAMBDA b : b.macro = "pins")

\* C18: for two MCUs of one GPIO revision with the same one pin and signal,
\* build and generate_pin_mappings print exactly one pins! block; its cfg
\* names the flags of both MCUs and it holds one entry, that of the pin.
C18_OneBlockForSharedPin ==
  (Grouped /\ SharedPin) =>
    /\ Len(PinsPrinted) = 1
    /\ \A g \in DOMAIN mcu_gpio_map :
         /\ { PinsPrinted[1].cfg[i] : i \in 1..Len(PinsPrinted[1].cfg) }
              = { <<" ", " ", " ", " ", "f", "e", "a", "t", "u", "r", "e", " ", "=", " ">> \o DebugStr(McuFlag(mcu_gpio_map[g][k])) : k \in 1..2 }
         /\ Len(PinsPrinted[1].cfg)
              = Cardinality({ McuFlag(mcu_gpio_map[g][k]) : k \in 1..2 })
         /\ Len(PinsPrinted[1].items) = 1
         /\ SubSeq(PinsPrinted[1].items[1], 1, 4 + Len(db[g][1].name))
              = <<" ", " ", " ", " ">> \o db[g][1].name

\* The pin mappings were printed for two MCUs with different flags that
\* share one pin.
C18_Witness ==
  /\ Grouped
  /\ SharedPin
  /\ \A g \in DOMAIN mcu_gpio_map : McuFlag(mcu_gpio_map[g][1]) # McuFlag(mcu_gpio_map[g][2])
  /\ Len(PinsPrinted) = 1


\* ------------------------------------------------------------------------
\* C19, C20: the tree of build and its revision map
\* ------------------------------------------------------------------------

\* C19: the tree build returns (its key paths, the io name and the pin names
\* of its nodes, the MCU set of its leaves) is the same for every order in
\* which the pairs of the input map are processed.
C19_TreeSameForEveryOrder ==
  (run = 2 /\ Built /\ first.v.pc = "done") => tree = first.v.tree

\* build has returned in a second run that processed two pairs in the other
\* order than the first run, and both pairs have leaves in the tree.
C19_Witness ==
  /\ run = 2
  /\ Built
  /\ first.v.pc = "done"
  /\ Len(order) = 2
  /\ order # first.v.order
  /\ Cardinality(LeafKeys) = 2


\* The identifiers of the input map and of the files.
GpioIds == DOMAIN mcu_gpio_map \cup DOMAIN db

\* C20: during build, two identifiers that parse have different keys
\* (revision group, revision); the branch for a duplicate in the revision map
\* is never taken; a leaf that is about to be overwritten holds the MCU set
\* that is written; and after build every leaf holds the MCU set the revision
\* map has for its key.
C20_KeysDistinctLeavesAgree ==
  /\ pc = "build" =>
       Cardinality({ KeyOf(g) : g \in { x \in GpioIds : ~BadGpio(x) } })
         = Cardinality({ x \in GpioIds : ~BadGpio(x) })
  /\ \A i \in 1..Len(stderr) : stderr[i].t # "gpio_duplicated"
  /\ (AtSignal /\ caller = "build" /\ CurFields.ok /\ CurHasLeaf(tree, CurFields)) =>
       CurLeaf(tree, CurFields) = cur.mcus
  /\ Built =>
       \A p \in TreePaths(tree) :
         /\ << p[5], p[6] >> \in MapKeys
         /\ Leaf(tree, p[1], p[2], p[3], p[4], p[5], p[6]) = gpio_all[p[5]].versions[p[6]]

\* build is about to overwrite a leaf, in a run with two revisions of one
\* revision group.
C20_Witness ==
  /\ AtSignal
  /\ caller = "build"
  /\ CurFields.ok
  /\ CurHasLeaf(tree, CurFields)
  /\ \E g1, g2 \in { g \in DOMAIN mcu_gpio_map : ~BadGpio(g) } :
       g1 # g2 /\ KeyOf(g1)[1] = KeyOf(g2)[1]


\* ------------------------------------------------------------------------
\* C21 - C23: the groups of generate_pin_mappings
\* ------------------------------------------------------------------------

\* The iot_ex the loop was entered with.
LoopInput ==
  io_traits_extended(collections(tree, AfTree_iter(tree, af_stems).v,
                                 caller = "combine_mcu_lists").io_traits_by_peripheral)

\* The loop was left with the groups in cur.io_traits_grouped: they are
\* pairwise disjoint, cover the MCUs of the visited pins, put two MCUs
\* together exactly when their trait maps are equal, hold the traits of
\* their MCUs, and are those of group_loop.
LoopPartitions ==
  LET G == cur.io_traits_grouped
  IN  /\ \A a, b \in DOMAIN G : a # b => a \cap b = {}
      /\ UNION DOMAIN G = UNION { p.mcus : p \in SelectedPins }
      /\ \A m1, m2 \in DOMAIN LoopInput :
           (\E g \in DOMAIN G : m1 \in g /\ m2 \in g) <=> LoopInput[m1] = LoopInput[m2]
      /\ \A g \in DOMAIN G : \A m \in g : G[g] = LoopInput[m]
      /\ G = group_loop(LoopInput, EmptyMap, 0).grouped

\* C21: the loop that builds io_traits_grouped is left for every input, its
\* groups partition the MCUs by their trait maps, and the branch for a
\* duplicated group is never taken.
C21_LoopEndsWithPartition ==
  /\ (pc = "group_loop") ~> (pc = "done")
  /\ [](pc \in {"group_loop", "done"} =>
          /\ cur.how = 0
          /\ \A i \in 1..Len(stderr) : stderr[i].t # "how")
  /\ [](pc = "done" => LoopPartitions)

\* The loop was left after two turns or more, with a group of two MCUs or
\* more.
C21_Witness ==
  /\ pc = "done"
  /\ generate = "pin_mappings"
  /\ Cardinality(DOMAIN cur.io_traits_grouped) >= 2
  /\ \E g \in DOMAIN cur.io_traits_grouped : Cardinality(g) >= 2


\* generate_pin_mappings has returned Ok with combine_mcu_lists = true, from
\* main or called with that flag.
Combined == Grouped /\ caller \in {"build", "combine_mcu_lists"}

\* The cfg line of an MCU, and the printed blocks of a macro whose cfg has it.
CfgLine(m) == features_of({m})[1]
BlocksFor(macro, m) ==
  { stdout[i] : i \in { k \in 1..Len(stdout) :
                          /\ stdout[k].macro = macro
                          /\ \E j \in 1..Len(stdout[k].cfg) : stdout[k].cfg[j] = CfgLine(m) } }
Items(b) == { b.items[i] : i \in 1..Len(b.items) }

\* An item is listed in a block of the macro whose group holds the MCU m.
UsedBy(macro, m, item) == \E b \in BlocksFor(macro, m) : item \in Items(b)

\* The same for a pin location, listed under its module in gpio_uses.
GpioUsedBy(m, loc) ==
  \E b \in BlocksFor("gpio_uses", m) :
    \E it \in Items(b) : \E k \in 1..Len(it.pins) : it.pins[k] = loc[1] \o Dec(loc[2])

\* The entries of the printed pins! blocks, each with the cfg of its block.
PinsEntries ==
  UNION { { << stdout[i].cfg, stdout[i].items[k] >> : k \in 1..Len(stdout[i].items) } :
          i \in { k \in 1..Len(stdout) : stdout[k].macro = "pins" } }

\* C22: with combine_mcu_lists, the entries of the pins! blocks are those of
\* the selected pins under their MCU sets, and for every MCU of the group of
\* an entry its device is listed in a dev_uses block, its AF code in a
\* gpio_af_uses block, its pin in a gpio_uses block and its trait in an
\* io_traits block, each for a group that holds the MCU.
C22_PinsEntriesAreBacked ==
  Combined =>
    /\ PinsEntries =
         { << features_of(p.mcus), pin_item(<< p.loc[1], p.loc[2], p.af, p.io_name, p.dev >>) >> :
             p \in SelectedPins }
    /\ \A p \in SelectedPins : \A m \in p.mcus :
         /\ UsedBy("dev_uses", m, p.dev)
         /\ UsedBy("gpio_af_uses", m, p.af)
         /\ GpioUsedBy(m, p.loc)
         /\ UsedBy("io_traits", m, p.io_name)

\* A pins! entry was printed for a group of MCUs, and its device is listed in
\* a dev_uses block of a larger group.
C22_Witness ==
  /\ Combined
  /\ \E p \in SelectedPins :
       /\ p.mcus # {}
       /\ \E m \in p.mcus : \E b \in BlocksFor("dev_uses", m) :
            /\ p.dev \in Items(b)
            /\ Len(b.cfg) > Cardinality(p.mcus)


\* C23: every block generate_pin_mappings prints for a tree of build has a
\* cfg that names an MCU at least: no group is keyed by the empty MCU set.
C23_NoBlockForNoMcu ==
  (Grouped /\ caller = "build") => \A i \in 1..Len(stdout) : Len(stdout[i].cfg) > 0

====
